---- MODULE Spec2Model ----
(***************************************************************************)
(* Model of the request-resolution pipeline of semantic-api0:              *)
(*   - the progressive-matching store (src/progressive_matching.rs),       *)
(*   - the progressive follow-up branch and the orchestrator               *)
(*     (src/analysis/*.rs),                                                *)
(*   - the streaming RPC facade (src/sentence_service.rs).                 *)
(*                                                                         *)
(* Option<T> is modelled as a sequence of length 0 (None) or 1 (Some).     *)
(***************************************************************************)
EXTENDS Integers, Sequences, FiniteSets, TLC

(***************************************************************************)
(* Bounds of the model.                                                    *)
(***************************************************************************)
\* longest new_parameters list handed to update_match in the store specs
MaxNew == 2
\* number of store API calls in one run of SpecStore
MaxOps == 3
\* number of analyze RPC calls in one run of Spec
MaxCalls == 2
\* number of conversations the ConversationManager starts in one run of Spec
MaxConvs == 1

(***************************************************************************)
(* Small input domains.                                                    *)
(***************************************************************************)
\* conversation ids and endpoint ids used as keys by the store-level specs
StoreKeys == {<<"c1", "send_email">>, <<"c1", "get_user">>, <<"c2", "send_email">>}

\* ParameterValue records that the callers of update_match may supply
ParamPool ==
    { [name |-> "to",        value |-> "v1", description |-> "d1"],
      [name |-> "to",        value |-> "v2", description |-> "d2"],
      [name |-> "recipient", value |-> "v1", description |-> "d1"] }

\* all sequences over S of length at most n
RECURSIVE SeqsUpTo(_, _)
SeqsUpTo(S, n) ==
    IF n = 0 THEN { <<>> }
    ELSE LET shorter == SeqsUpTo(S, n - 1)
         IN  shorter \cup { Append(s, x) : s \in shorter, x \in S }

NewParamLists == SeqsUpTo(ParamPool, MaxNew)

\* endpoint parameter definitions handed to check_completion
EndpointParamLists ==
    { << >>,
      << [name |-> "to", required |-> <<TRUE>>, alternatives |-> << <<"recipient">> >>],
         [name |-> "subject", required |-> <<TRUE>>, alternatives |-> << <<>> >>] >>,
      << [name |-> "to", required |-> <<TRUE>>, alternatives |-> <<>>],
         [name |-> "recipient", required |-> <<FALSE>>, alternatives |-> << <<"to">> >>] >> }

RequiredLists == { <<>>, <<"to">>, <<"to", "subject">> }

(***************************************************************************)
(* State.                                                                  *)
(***************************************************************************)
VARIABLES
    db,      \* table ongoing_matches: key <<conversation_id, endpoint_id>> -> Option<row>
    last,    \* SpecStore: the store API call made last, its inputs and its result
    phase,   \* SpecStore: per key, what the latest write calls on it were
    nops,    \* number of store API calls made so far; also the clock (Utc::now)
    db2,     \* SpecCommute: a second copy of the table, updated in the other order
    cphase,  \* SpecCommute: position in the two-order experiment
    argA,    \* SpecCommute: the parameter list of update A
    argB,    \* SpecCommute: the parameter list of update B
    fphase,  \* SpecFollowup: position in check / follow-up update / check
    freq,    \* SpecFollowup: the required names and endpoint definitions in use
    report1, \* SpecFollowup: Option<ProgressiveMatchResult> of the first check
    report2, \* SpecFollowup: Option<ProgressiveMatchResult> of the second check
    upc,     \* SpecUpd: position of each of the two update_match calls
    uarg,    \* SpecUpd: new_parameters of each call
    uread,   \* SpecUpd: existing_params read by each call
    ucreated,\* SpecUpd: created_at read by each call
    unow,    \* SpecUpd: now of each call
    cfg,     \* Spec: how the service was started (DATABASE_URL, progressive_manager, ...)
    conversations, \* Spec: ConversationManager.conversations, the ids it knows
    messages,\* Spec: ConversationManager.messages, per conversation id
    started, \* Spec: number of analyze RPC calls received so far
    call,    \* Spec: the analyze RPC call in progress, its locals and its outcome
    cm_parameters,      \* SpecCompute: the ParameterMatch list given to compute
    cm_endpoint_params, \* SpecCompute: the EndpointParameter list given to compute
    cm_info,  \* SpecCompute: Option<MatchingInfo> of the first computation
    cm_info2, \* SpecCompute: Option<MatchingInfo> of the second computation
    cm_pc,    \* SpecCompute: position in input / compute / compute again
    context,  \* SpecWorkflow: the WorkflowContext the steps share
    wf_step,  \* SpecWorkflow: index in the workflow configuration of the step to run
    wf_attempt, \* SpecWorkflow: number of the attempt of that step
    wf_pc,    \* SpecWorkflow: position of try_actionable_analysis
    wf_last,  \* SpecWorkflow: name of the step executed last
    wf_error, \* SpecWorkflow: Option<error> of the last failed attempt
    wf_semantic, \* SpecWorkflow: what the last match_fields_semantic call did
    wf_result,\* SpecWorkflow: Option<Result<EnhancedAnalysisResult>> returned
    ci_sentence, \* SpecClassify: the sentence given to classify_intent
    ci_response, \* SpecClassify: the content of the provider's response
    ci_intent,\* SpecClassify: Option<IntentType> returned
    ep_path,  \* SpecPath: the path given to extract_essential_path
    ep_essential, \* SpecPath: Option<String> of the essential path derived
    ep_again, \* SpecPath: Option<String> derived from the essential path
    hp_endpoints, \* SpecHelp: available_endpoints of the help request
    hp_pc,    \* SpecHelp: position in handle_help_request
    hp_language, \* SpecHelp: Option<String> detected language
    hp_calls, \* SpecHelp: the provider.generate calls made so far
    hp_result,\* SpecHelp: Option<Result<GenerationResult>> returned
    rc_pc,    \* SpecRace: position of each of the two follow-up turns
    rc_new,   \* SpecRace: new_parameters extracted by each turn
    rc_read,  \* SpecRace: existing_params read by each turn's update_match
    rc_result,\* SpecRace: what each turn returned
    cv_meta,  \* SpecConv: ConversationManager.conversations, id -> message_count
    cv_msgs,  \* SpecConv: ConversationManager.messages, id -> messages
    cv_proc,  \* SpecConv: the call each of the two tasks is in, and where
    cv_ops    \* SpecConv: number of calls started so far

storeAux == <<last, phase>>
commuteVars == <<db2, cphase, argA, argB>>
followVars == <<fphase, freq, report1, report2>>
updVars == <<upc, uarg, uread, ucreated, unow>>
pipeVars == <<cfg, conversations, messages, started, call>>
computeVars == <<cm_parameters, cm_endpoint_params, cm_info, cm_info2, cm_pc>>
wfVars == <<context, wf_step, wf_attempt, wf_pc, wf_last, wf_error, wf_semantic, wf_result>>
classifyVars == <<ci_sentence, ci_response, ci_intent>>
pathVars == <<ep_path, ep_essential, ep_again>>
helpVars == <<hp_endpoints, hp_pc, hp_language, hp_calls, hp_result>>
raceVars == <<rc_pc, rc_new, rc_read, rc_result>>
convVars == <<cv_meta, cv_msgs, cv_proc, cv_ops>>
lateVars == <<raceVars, convVars>>
unitVars == <<wfVars, classifyVars, pathVars, helpVars, lateVars>>
vars == <<db, nops, storeAux, commuteVars, followVars, updVars, pipeVars, computeVars, unitVars>>

(***************************************************************************)
(* The store: src/progressive_matching.rs                                  *)
(***************************************************************************)
\* serde_json::to_string(&Vec<ParameterValue>): one JSON object per entry,
\* modelled as the triple of its three string fields
ToJson(params) ==
    [i \in 1..Len(params) |-> <<params[i].name, params[i].value, params[i].description>>]

\* serde_json::from_str::<Vec<ParameterValue>>
FromJson(json) ==
    [i \in 1..Len(json) |-> [name |-> json[i][1], value |-> json[i][2], description |-> json[i][3]]]

\* index of the first entry of params named n, 0 when there is none
\* (Iterator::find / iter_mut().find over p.name == n)
FindByName(params, n) ==
    IF \E i \in 1..Len(params) : params[i].name = n
    THEN CHOOSE i \in 1..Len(params) :
            /\ params[i].name = n
            /\ \A j \in 1..(i - 1) : params[j].name # n
    ELSE 0

\* a plausible slip of the merge loop: a same-named entry is appended again
\* instead of having its value overwritten
RECURSIVE MergeParametersAppendOnly(_, _)
MergeParametersAppendOnly(all_parameters, new_parameters) ==
    IF new_parameters = <<>> THEN all_parameters
    ELSE MergeParametersAppendOnly(Append(all_parameters, Head(new_parameters)),
                                   Tail(new_parameters))

\* update_match, "Merge parameters": for new_param in new_parameters { ... }
RECURSIVE MergeParameters(_, _)
MergeParameters(all_parameters, new_parameters) ==
    IF new_parameters = <<>> THEN all_parameters
    ELSE LET new_param == Head(new_parameters)
             idx == FindByName(all_parameters, new_param.name)
             merged == IF idx # 0
                       THEN [all_parameters EXCEPT ![idx].value = new_param.value]
                       ELSE Append(all_parameters, new_param)
         IN  MergeParameters(merged, Tail(new_parameters))

\* SELECT parameters FROM ongoing_matches WHERE conversation_id = $1 AND endpoint_id = $2
SelectParameters(table, conversation_id, endpoint_id) ==
    LET row == table[<<conversation_id, endpoint_id>>]
    IN  IF row = <<>> THEN <<>> ELSE << row[1].parameters >>

\* SELECT created_at FROM ongoing_matches WHERE conversation_id = $1 AND endpoint_id = $2
SelectCreatedAt(table, conversation_id, endpoint_id) ==
    LET row == table[<<conversation_id, endpoint_id>>]
    IN  IF row = <<>> THEN <<>> ELSE << row[1].created_at >>

\* a plausible slip of update_match: the new list replaces the stored one
MergedJsonNewOnly(existing_params, new_parameters) == ToJson(new_parameters)

\* the list update_match writes, given what its first SELECT returned
MergedJson(existing_params, new_parameters) ==
    LET all_parameters == IF existing_params = <<>> THEN <<>>
                          ELSE FromJson(existing_params[1])
    IN  ToJson(MergeParameters(all_parameters, new_parameters))

\* INSERT ... ON CONFLICT (conversation_id, endpoint_id)
\*   DO UPDATE SET parameters = $3, updated_at = $5
Upsert(table, conversation_id, endpoint_id, parameters_json, created_at, now) ==
    LET key == <<conversation_id, endpoint_id>>
    IN  IF table[key] = <<>>
        THEN [table EXCEPT ![key] = << [parameters |-> parameters_json,
                                        created_at |-> created_at,
                                        updated_at |-> now] >>]
        ELSE [table EXCEPT ![key] = << [parameters |-> parameters_json,
                                        created_at |-> table[key][1].created_at,
                                        updated_at |-> now] >>]

\* update_match run without any other statement in between
update_match(table, conversation_id, endpoint_id, new_parameters, now) ==
    LET existing_params == SelectParameters(table, conversation_id, endpoint_id)
        parameters_json == MergedJson(existing_params, new_parameters)
        existing_created == SelectCreatedAt(table, conversation_id, endpoint_id)
        created_at == IF existing_created = <<>> THEN now ELSE existing_created[1]
    IN  Upsert(table, conversation_id, endpoint_id, parameters_json, created_at, now)

\* a plausible slip of complete_match: the DELETE filters on the conversation only
complete_match_whole_conversation(table, conversation_id, endpoint_id) ==
    [k \in DOMAIN table |-> IF k[1] = conversation_id THEN <<>> ELSE table[k]]

\* complete_match: DELETE FROM ongoing_matches WHERE conversation_id = $1 AND endpoint_id = $2
complete_match(table, conversation_id, endpoint_id) ==
    [table EXCEPT ![<<conversation_id, endpoint_id>>] = <<>>]

\* get_match: exact-row read
get_match(table, conversation_id, endpoint_id) ==
    table[<<conversation_id, endpoint_id>>]

\* a plausible slip of is_parameter_satisfied: the reverse alternatives check is missing
RECURSIVE is_parameter_satisfied_no_reverse(_, _, _)
is_parameter_satisfied_no_reverse(required_param, matched_parameters, endpoint_parameters) ==
    IF matched_parameters = <<>> THEN FALSE
    ELSE LET matched == Head(matched_parameters)
             ep == FindByName(endpoint_parameters, required_param)
         IN  \/ matched.name = required_param
             \/ /\ ep # 0
                /\ endpoint_parameters[ep].alternatives # <<>>
                /\ \E i \in 1..Len(endpoint_parameters[ep].alternatives[1]) :
                       endpoint_parameters[ep].alternatives[1][i] = matched.name
             \/ is_parameter_satisfied_no_reverse(required_param, Tail(matched_parameters),
                                                  endpoint_parameters)

\* is_parameter_satisfied: the loop over matched_parameters with its three early returns
RECURSIVE is_parameter_satisfied(_, _, _)
is_parameter_satisfied(required_param, matched_parameters, endpoint_parameters) ==
    IF matched_parameters = <<>> THEN FALSE
    ELSE LET matched == Head(matched_parameters)
             ep == FindByName(endpoint_parameters, required_param)
             mep == FindByName(endpoint_parameters, matched.name)
         IN  \/ matched.name = required_param
             \/ /\ ep # 0
                /\ endpoint_parameters[ep].alternatives # <<>>
                /\ \E i \in 1..Len(endpoint_parameters[ep].alternatives[1]) :
                       endpoint_parameters[ep].alternatives[1][i] = matched.name
             \/ /\ mep # 0
                /\ endpoint_parameters[mep].alternatives # <<>>
                /\ \E i \in 1..Len(endpoint_parameters[mep].alternatives[1]) :
                       endpoint_parameters[mep].alternatives[1][i] = required_param
             \/ is_parameter_satisfied(required_param, Tail(matched_parameters),
                                       endpoint_parameters)

\* the subsequence of the required names for which is_parameter_satisfied = wanted
RECURSIVE PartitionRequired(_, _, _, _)
PartitionRequired(required_parameters, matched_parameters, endpoint_parameters, wanted) ==
    IF required_parameters = <<>> THEN <<>>
    ELSE LET required_param == Head(required_parameters)
             rest == PartitionRequired(Tail(required_parameters), matched_parameters,
                                       endpoint_parameters, wanted)
         IN  IF is_parameter_satisfied(required_param, matched_parameters,
                                       endpoint_parameters) = wanted
             THEN <<required_param>> \o rest
             ELSE rest

\* (satisfied / required) * 100.0 as f32; the model keeps the integer part, which
\* keeps every comparison with 100.0 that the code makes
Percentage(satisfied, required) ==
    IF required = 0 THEN 100 ELSE (satisfied * 100) \div required

\* check_completion
check_completion(table, conversation_id, endpoint_id, required_parameters, endpoint_parameters) ==
    LET ongoing_match == get_match(table, conversation_id, endpoint_id)
        matched_parameters == IF ongoing_match = <<>> THEN <<>>
                              ELSE FromJson(ongoing_match[1].parameters)
        satisfied_required_params ==
            PartitionRequired(required_parameters, matched_parameters, endpoint_parameters, TRUE)
        missing_parameters ==
            PartitionRequired(required_parameters, matched_parameters, endpoint_parameters, FALSE)
        is_complete == (missing_parameters = <<>>)
    IN  [ conversation_id |-> conversation_id,
          endpoint_id |-> endpoint_id,
          matched_parameters |-> matched_parameters,
          missing_parameters |-> missing_parameters,
          is_complete |-> is_complete,
          completion_percentage |-> Percentage(Len(satisfied_required_params),
                                               Len(required_parameters)),
          ready_for_execution |-> is_complete ]

(***************************************************************************)
(* SpecStore: the store API called by one client at a time.               *)
(***************************************************************************)
EmptyTable(keys) == [k \in keys |-> <<>>]

\* the keys whose row differs between two tables
Touched(before, after) == { k \in DOMAIN before : before[k] # after[k] }

NoCall == [ op |-> "none", conversation_id |-> "", endpoint_id |-> "",
            new_parameters |-> <<>>, required_parameters |-> <<>>,
            endpoint_parameters |-> <<>>, pre |-> <<>>, touched |-> {},
            got |-> <<>>, report |-> <<>> ]

\* the variables a specification does not use keep these values
IdleStoreAux == last = NoCall /\ phase = [k \in StoreKeys |-> "none"]
IdleCommute == db2 = EmptyTable(StoreKeys) /\ cphase = "off" /\ argA = <<>> /\ argB = <<>>
IdleFollow == fphase = "off" /\ freq = <<>> /\ report1 = <<>> /\ report2 = <<>>
IdleUpd ==
    /\ upc = [p \in {1, 2} |-> "off"]
    /\ uarg = [p \in {1, 2} |-> <<>>]
    /\ uread = [p \in {1, 2} |-> <<>>]
    /\ ucreated = [p \in {1, 2} |-> <<>>]
    /\ unow = [p \in {1, 2} |-> 0]
IdleCompute ==
    /\ cm_parameters = <<>> /\ cm_endpoint_params = <<>>
    /\ cm_info = <<>> /\ cm_info2 = <<>> /\ cm_pc = "off"
IdleWorkflow ==
    /\ context = <<>> /\ wf_step = 0 /\ wf_attempt = 0 /\ wf_pc = "off"
    /\ wf_last = "" /\ wf_error = <<>> /\ wf_semantic = <<>> /\ wf_result = <<>>
IdleClassify == ci_sentence = <<>> /\ ci_response = <<>> /\ ci_intent = <<>>
IdlePath == ep_path = <<>> /\ ep_essential = <<>> /\ ep_again = <<>>
IdleHelp ==
    /\ hp_endpoints = <<>> /\ hp_pc = "off" /\ hp_language = <<>>
    /\ hp_calls = <<>> /\ hp_result = <<>>
IdleRace == rc_pc = <<>> /\ rc_new = <<>> /\ rc_read = <<>> /\ rc_result = <<>>

IdleConv == cv_meta = <<>> /\ cv_msgs = <<>> /\ cv_proc = <<>> /\ cv_ops = 0

IdleLate == IdleRace /\ IdleConv

IdleUnits == IdleWorkflow /\ IdleClassify /\ IdlePath /\ IdleHelp /\ IdleLate
IdlePipe ==
    /\ cfg = <<>>
    /\ conversations = {}
    /\ messages = <<>>
    /\ started = 0
    /\ call = <<>>

InitStore ==
    /\ db = EmptyTable(StoreKeys)
    /\ nops = 0
    /\ IdleStoreAux /\ IdleCommute /\ IdleFollow /\ IdleUpd /\ IdlePipe /\ IdleCompute /\ IdleUnits

\* manager.update_match(conversation_id, endpoint_id, new_parameters)
StoreUpdate(c, e, new_parameters) ==
    /\ nops < MaxOps
    /\ db' = update_match(db, c, e, new_parameters, nops + 1)
    /\ last' = [NoCall EXCEPT !.op = "update_match", !.conversation_id = c,
                              !.endpoint_id = e, !.new_parameters = new_parameters,
                              !.pre = db[<<c, e>>], !.touched = Touched(db, db')]
    /\ phase' = [phase EXCEPT ![<<c, e>>] = "updated"]
    /\ nops' = nops + 1
    /\ UNCHANGED <<commuteVars, followVars, updVars, pipeVars, computeVars, unitVars>>

\* manager.complete_match(conversation_id, endpoint_id)
StoreComplete(c, e) ==
    /\ nops < MaxOps
    /\ db' = complete_match(db, c, e)
    /\ last' = [NoCall EXCEPT !.op = "complete_match", !.conversation_id = c,
                              !.endpoint_id = e, !.pre = db[<<c, e>>],
                              !.touched = Touched(db, db')]
    /\ phase' = [phase EXCEPT ![<<c, e>>] =
                    IF phase[<<c, e>>] = "updated" THEN "completed" ELSE @]
    /\ nops' = nops + 1
    /\ UNCHANGED <<commuteVars, followVars, updVars, pipeVars, computeVars, unitVars>>

\* manager.get_match(conversation_id, endpoint_id)
StoreGet(c, e) ==
    /\ nops < MaxOps
    /\ last' = [NoCall EXCEPT !.op = "get_match", !.conversation_id = c,
                              !.endpoint_id = e, !.pre = db[<<c, e>>],
                              !.got = get_match(db, c, e)]
    /\ nops' = nops + 1
    /\ UNCHANGED <<db, phase, commuteVars, followVars, updVars, pipeVars, computeVars, unitVars>>

\* manager.check_completion(conversation_id, endpoint_id, required, endpoint_parameters)
StoreCheck(c, e, required_parameters, endpoint_parameters) ==
    /\ nops < MaxOps
    /\ last' = [NoCall EXCEPT !.op = "check_completion", !.conversation_id = c,
                              !.endpoint_id = e, !.pre = db[<<c, e>>],
                              !.required_parameters = required_parameters,
                              !.endpoint_parameters = endpoint_parameters,
                              !.report = << check_completion(db, c, e, required_parameters,
                                                             endpoint_parameters) >>]
    /\ nops' = nops + 1
    /\ UNCHANGED <<db, phase, commuteVars, followVars, updVars, pipeVars, computeVars, unitVars>>

NextStore ==
    \/ \E k \in StoreKeys, n \in NewParamLists : StoreUpdate(k[1], k[2], n)
    \/ \E k \in StoreKeys : StoreComplete(k[1], k[2])
    \/ \E k \in StoreKeys : StoreGet(k[1], k[2])
    \/ \E k \in StoreKeys, r \in RequiredLists, ep \in EndpointParamLists :
           StoreCheck(k[1], k[2], r, ep)

SpecStore == InitStore /\ [][NextStore]_vars

(***************************************************************************)
(* Claims on the store API (SpecStore).                                    *)
(***************************************************************************)
\* the decoded parameter list of an optional row (empty when there is no row)
RowParams(row) == IF row = <<>> THEN <<>> ELSE FromJson(row[1].parameters)

NamesOf(params) == { params[i].name : i \in 1..Len(params) }

\* the value of the last entry of params named n
LastValueOf(params, n) ==
    LET i == CHOOSE i \in 1..Len(params) :
                 /\ params[i].name = n
                 /\ \A j \in (i + 1)..Len(params) : params[j].name # n
    IN  params[i].value

\* the position of the first entry of params named n
FirstPosOf(params, n) ==
    CHOOSE i \in 1..Len(params) :
        /\ params[i].name = n
        /\ \A j \in 1..(i - 1) : params[j].name # n

\* R is S merged with N: the entries of S stay in place and keep their name and
\* description, take N's (last) value when N names them; the names of N that S does
\* not have follow, once each, in the order of their first occurrence in N
IsMergeOf(R, S, N) ==
    /\ Len(R) = Len(S) + Cardinality(NamesOf(N) \ NamesOf(S))
    /\ \A i \in 1..Len(S) :
          /\ R[i].name = S[i].name
          /\ R[i].description = S[i].description
          /\ R[i].value = IF S[i].name \in NamesOf(N)
                          THEN LastValueOf(N, S[i].name)
                          ELSE S[i].value
    /\ \A i \in (Len(S) + 1)..Len(R) :
          /\ R[i].name \in NamesOf(N) \ NamesOf(S)
          /\ R[i].value = LastValueOf(N, R[i].name)
          /\ R[i].description = N[FirstPosOf(N, R[i].name)].description
          /\ \A j \in (Len(S) + 1)..(i - 1) :
                /\ R[j].name # R[i].name
                /\ FirstPosOf(N, R[j].name) < FirstPosOf(N, R[i].name)

\* C2: update(conv, ep, N) on a stored list S (empty when there was no row) keeps
\* every entry of S in place, overwrites the value of the entries N names, appends
\* the names of N that S lacks after the entries of S, and changes no other row.
C2_UpdateMerges ==
    last.op = "update_match" =>
        LET key == <<last.conversation_id, last.endpoint_id>>
        IN  /\ db[key] # <<>>
            /\ IsMergeOf(RowParams(db[key]), RowParams(last.pre), last.new_parameters)
            /\ last.touched \subseteq {key}

\* an update that both overwrites a stored value and appends a new name
C2_Witness ==
    /\ last.op = "update_match"
    /\ last.pre # <<>>
    /\ \E i \in 1..Len(RowParams(last.pre)) :
          /\ RowParams(last.pre)[i].name \in NamesOf(last.new_parameters)
          /\ RowParams(db[<<last.conversation_id, last.endpoint_id>>])[i].value
                # RowParams(last.pre)[i].value
    /\ Len(RowParams(db[<<last.conversation_id, last.endpoint_id>>]))
          > Len(RowParams(last.pre))

\* C5: update(conv, ep, ..) then complete(conv, ep) then get(conv, ep) returns none,
\* and complete removes the row of its own key and no other row.
C5_CompleteThenGetNone ==
    /\ (last.op = "get_match"
          /\ phase[<<last.conversation_id, last.endpoint_id>>] = "completed")
       => last.got = <<>>
    /\ last.op = "complete_match"
       => /\ db[<<last.conversation_id, last.endpoint_id>>] = <<>>
          /\ last.touched \subseteq { <<last.conversation_id, last.endpoint_id>> }

\* a get that follows update and complete on its key, while another row is stored
C5_Witness ==
    /\ last.op = "get_match"
    /\ phase[<<last.conversation_id, last.endpoint_id>>] = "completed"
    /\ last.got = <<>>

\* required name r is satisfied by the stored list M under the definitions eps
SatisfiedBy(r, M, eps) ==
    \E m \in 1..Len(M) :
       \/ M[m].name = r
       \/ \E i \in 1..Len(eps) :
             /\ eps[i].name = r
             /\ \A j \in 1..(i - 1) : eps[j].name # r
             /\ eps[i].alternatives # <<>>
             /\ \E a \in 1..Len(eps[i].alternatives[1]) :
                   eps[i].alternatives[1][a] = M[m].name
       \/ \E i \in 1..Len(eps) :
             /\ eps[i].name = M[m].name
             /\ \A j \in 1..(i - 1) : eps[j].name # M[m].name
             /\ eps[i].alternatives # <<>>
             /\ \E a \in 1..Len(eps[i].alternatives[1]) :
                   eps[i].alternatives[1][a] = r

\* C6: check_completion reports as missing exactly the required names that are not
\* satisfied (by name, by an alternative of the required parameter, or by the
\* required name being an alternative of a stored parameter); is_complete iff
\* nothing is missing; ready_for_execution = is_complete; the percentage is 100
\* for no required name and 100 * satisfied / required otherwise; no row = empty list.
C6_CheckCompletion ==
    last.op = "check_completion" =>
        LET r == last.report[1]
            M == RowParams(last.pre)
            req == last.required_parameters
            eps == last.endpoint_parameters
            missing == SelectSeq(req, LAMBDA x : ~SatisfiedBy(x, M, eps))
        IN  /\ r.matched_parameters = M
            /\ r.missing_parameters = missing
            /\ r.is_complete = (missing = <<>>)
            /\ r.ready_for_execution = r.is_complete
            /\ r.completion_percentage =
                  IF req = <<>> THEN 100
                  ELSE (100 * (Len(req) - Len(missing))) \div Len(req)

\* a check in which one required name is satisfied through an alternative only
\* and another required name is missing
C6_Witness ==
    /\ last.op = "check_completion"
    /\ last.required_parameters = <<"to", "subject">>
    /\ "to" \notin NamesOf(RowParams(last.pre))
    /\ last.report[1].missing_parameters = <<"subject">>
    /\ last.report[1].completion_percentage = 50
    /\ ~last.report[1].is_complete

(***************************************************************************)
(* SpecCommute: the same two updates applied to one key in both orders, on *)
(* two copies of the table that start from the same stored row.            *)
(***************************************************************************)
TheKey == <<"c1", "send_email">>

InitCommute ==
    /\ db = EmptyTable(StoreKeys)
    /\ db2 = EmptyTable(StoreKeys)
    /\ cphase = "seed"
    /\ argA = <<>>
    /\ argB = <<>>
    /\ nops = 0
    /\ IdleStoreAux /\ IdleFollow /\ IdleUpd /\ IdlePipe /\ IdleCompute /\ IdleUnits

\* an earlier update gives both copies the same stored list
CommuteSeed(new_parameters) ==
    /\ cphase = "seed"
    /\ db' = update_match(db, TheKey[1], TheKey[2], new_parameters, nops + 1)
    /\ db2' = update_match(db2, TheKey[1], TheKey[2], new_parameters, nops + 1)
    /\ cphase' = "seeded"
    /\ nops' = nops + 1
    /\ UNCHANGED <<argA, argB, storeAux, followVars, updVars, pipeVars, computeVars, unitVars>>

\* first update of each order: A on db, B on db2
CommuteFirst(a, b) ==
    /\ cphase \in {"seed", "seeded"}
    /\ db' = update_match(db, TheKey[1], TheKey[2], a, nops + 1)
    /\ db2' = update_match(db2, TheKey[1], TheKey[2], b, nops + 1)
    /\ argA' = a
    /\ argB' = b
    /\ cphase' = "first"
    /\ nops' = nops + 1
    /\ UNCHANGED <<storeAux, followVars, updVars, pipeVars, computeVars, unitVars>>

\* second update of each order: B on db, A on db2
CommuteSecond ==
    /\ cphase = "first"
    /\ db' = update_match(db, TheKey[1], TheKey[2], argB, nops + 1)
    /\ db2' = update_match(db2, TheKey[1], TheKey[2], argA, nops + 1)
    /\ cphase' = "done"
    /\ nops' = nops + 1
    /\ UNCHANGED <<argA, argB, storeAux, followVars, updVars, pipeVars, computeVars, unitVars>>

NextCommute ==
    \/ \E n \in NewParamLists : CommuteSeed(n)
    \/ \E a \in NewParamLists, b \in NewParamLists : CommuteFirst(a, b)
    \/ CommuteSecond

SpecCommute == InitCommute /\ [][NextCommute]_vars

\* the name-to-value mapping of a parameter list
MappingOf(params) == { <<params[i].name, params[i].value>> : i \in 1..Len(params) }

\* C4: for disjoint parameter names update(A);update(B) and update(B);update(A)
\* leave the same name-to-value mapping; for a shared name the stored value is
\* the one given by the update that ran last.
C4_CommuteOrLastWins ==
    cphase = "done" =>
        LET ab == RowParams(db[TheKey])
            ba == RowParams(db2[TheKey])
        IN  /\ (NamesOf(argA) \cap NamesOf(argB) = {}) => MappingOf(ab) = MappingOf(ba)
            /\ \A n \in NamesOf(argA) \cap NamesOf(argB) :
                  /\ \A i \in 1..Len(ab) : ab[i].name = n => ab[i].value = LastValueOf(argB, n)
                  /\ \A i \in 1..Len(ba) : ba[i].name = n => ba[i].value = LastValueOf(argA, n)

\* both orders ran with two non-empty disjoint lists on a stored row, and the
\* two resulting lists differ in order only
C4_Witness ==
    /\ cphase = "done"
    /\ argA # <<>> /\ argB # <<>>
    /\ NamesOf(argA) \cap NamesOf(argB) = {}
    /\ RowParams(db[TheKey]) # RowParams(db2[TheKey])
    /\ MappingOf(RowParams(db[TheKey])) = MappingOf(RowParams(db2[TheKey]))

(***************************************************************************)
(* SpecFollowup: check_completion, then the follow-up update of             *)
(* handle_progressive_followup with exactly the missing names, then         *)
(* check_completion again.                                                  *)
(***************************************************************************)
FollowPool == ParamPool \cup { [name |-> "subject", value |-> "v1", description |-> "d1"] }

InitFollow ==
    /\ db = EmptyTable(StoreKeys)
    /\ fphase = "start"
    /\ freq = <<>>
    /\ report1 = <<>>
    /\ report2 = <<>>
    /\ nops = 0
    /\ IdleStoreAux /\ IdleCommute /\ IdleUpd /\ IdlePipe /\ IdleCompute /\ IdleUnits

\* an earlier turn stored some parameters
FollowSeed(new_parameters) ==
    /\ fphase = "start"
    /\ db' = update_match(db, TheKey[1], TheKey[2], new_parameters, nops + 1)
    /\ fphase' = "seeded"
    /\ nops' = nops + 1
    /\ UNCHANGED <<freq, report1, report2, storeAux, commuteVars, updVars, pipeVars, computeVars, unitVars>>

\* check_completion reports the missing set
FollowFirstCheck(required_parameters, endpoint_parameters) ==
    /\ fphase \in {"start", "seeded"}
    /\ freq' = <<required_parameters, endpoint_parameters>>
    /\ report1' = << check_completion(db, TheKey[1], TheKey[2], required_parameters,
                                      endpoint_parameters) >>
    /\ fphase' = "checked"
    /\ UNCHANGED <<db, nops, report2, storeAux, commuteVars, updVars, pipeVars, computeVars, unitVars>>

\* handle_progressive_followup: update_match with the extracted parameters, here
\* parameters whose names are exactly the missing names
FollowUpdate(new_parameters) ==
    /\ fphase = "checked"
    /\ NamesOf(new_parameters) =
          { report1[1].missing_parameters[i] : i \in 1..Len(report1[1].missing_parameters) }
    /\ db' = update_match(db, TheKey[1], TheKey[2], new_parameters, nops + 1)
    /\ fphase' = "updated"
    /\ nops' = nops + 1
    /\ UNCHANGED <<freq, report1, report2, storeAux, commuteVars, updVars, pipeVars, computeVars, unitVars>>

\* handle_progressive_followup: check_completion after the update
FollowSecondCheck ==
    /\ fphase = "updated"
    /\ report2' = << check_completion(db, TheKey[1], TheKey[2], freq[1], freq[2]) >>
    /\ fphase' = "done"
    /\ UNCHANGED <<db, nops, freq, report1, storeAux, commuteVars, updVars, pipeVars, computeVars, unitVars>>

NextFollow ==
    \/ \E n \in NewParamLists : FollowSeed(n)
    \/ \E r \in RequiredLists, ep \in EndpointParamLists : FollowFirstCheck(r, ep)
    \/ \E n \in SeqsUpTo(FollowPool, MaxNew) : FollowUpdate(n)
    \/ FollowSecondCheck

SpecFollowup == InitFollow /\ [][NextFollow]_vars

\* C7: after check_completion reported missing set X and a follow-up updated the
\* key with parameters named exactly X, the next check_completion with the same
\* required names reports is_complete and nothing missing.
C7_FollowupCompletes ==
    fphase = "done" =>
        /\ report2[1].is_complete
        /\ report2[1].missing_parameters = <<>>

\* the first check reported two missing names, the follow-up supplied them
C7_Witness ==
    /\ fphase = "done"
    /\ Len(report1[1].missing_parameters) = 2
    /\ ~report1[1].is_complete
    /\ report2[1].is_complete

(***************************************************************************)
(* SpecUpd: two update_match calls on the same key run by two concurrent   *)
(* analyze tasks; every statement on the pooled connection is a step.      *)
(***************************************************************************)
Callers == {1, 2}

InitUpd ==
    /\ \E seed \in NewParamLists :
          db \in { EmptyTable(StoreKeys),
                   update_match(EmptyTable(StoreKeys), TheKey[1], TheKey[2], seed, 0) }
    /\ nops = 0
    /\ upc = [p \in Callers |-> "idle"]
    /\ uarg = [p \in Callers |-> <<>>]
    /\ uread = [p \in Callers |-> <<>>]
    /\ ucreated = [p \in Callers |-> <<>>]
    /\ unow = [p \in Callers |-> 0]
    /\ IdleStoreAux /\ IdleCommute /\ IdleFollow /\ IdlePipe /\ IdleCompute /\ IdleUnits

\* update_match entered: let now = Utc::now(); pool.get()
UpdBegin(p, new_parameters) ==
    /\ upc[p] = "idle"
    /\ uarg' = [uarg EXCEPT ![p] = new_parameters]
    /\ unow' = [unow EXCEPT ![p] = nops + 1]
    /\ nops' = nops + 1
    /\ upc' = [upc EXCEPT ![p] = "select_parameters"]
    /\ UNCHANGED <<db, uread, ucreated, storeAux, commuteVars, followVars, pipeVars, computeVars, unitVars>>

\* first query_opt: SELECT parameters
UpdSelectParameters(p) ==
    /\ upc[p] = "select_parameters"
    /\ uread' = [uread EXCEPT ![p] = SelectParameters(db, TheKey[1], TheKey[2])]
    /\ upc' = [upc EXCEPT ![p] = "select_created_at"]
    /\ UNCHANGED <<db, nops, uarg, ucreated, unow, storeAux, commuteVars, followVars, pipeVars, computeVars, unitVars>>

\* second query_opt: SELECT created_at
UpdSelectCreatedAt(p) ==
    /\ upc[p] = "select_created_at"
    /\ ucreated' = [ucreated EXCEPT ![p] = SelectCreatedAt(db, TheKey[1], TheKey[2])]
    /\ upc' = [upc EXCEPT ![p] = "upsert"]
    /\ UNCHANGED <<db, nops, uarg, uread, unow, storeAux, commuteVars, followVars, pipeVars, computeVars, unitVars>>

\* execute: INSERT ... ON CONFLICT DO UPDATE, then return Ok(())
UpdUpsert(p) ==
    /\ upc[p] = "upsert"
    /\ db' = Upsert(db, TheKey[1], TheKey[2], MergedJson(uread[p], uarg[p]),
                    IF ucreated[p] = <<>> THEN unow[p] ELSE ucreated[p][1], unow[p])
    /\ upc' = [upc EXCEPT ![p] = "returned"]
    /\ UNCHANGED <<nops, uarg, uread, ucreated, unow, storeAux, commuteVars, followVars, pipeVars, computeVars, unitVars>>

NextUpd ==
    \/ \E p \in Callers, n \in NewParamLists : UpdBegin(p, n)
    \/ \E p \in Callers : UpdSelectParameters(p)
    \/ \E p \in Callers : UpdSelectCreatedAt(p)
    \/ \E p \in Callers : UpdUpsert(p)

SpecUpd == InitUpd /\ [][NextUpd]_vars

\* C3: when two update calls for the same key with disjoint parameter names run
\* concurrently, the row holds every name of both calls after both have returned.
C3_ConcurrentUpdatesConverge ==
    ( /\ \A p \in Callers : upc[p] = "returned"
      /\ NamesOf(uarg[1]) \cap NamesOf(uarg[2]) = {} )
    => (NamesOf(uarg[1]) \cup NamesOf(uarg[2])) \subseteq NamesOf(RowParams(db[TheKey]))

(***************************************************************************)
(* The endpoint catalog and the path parameters:                           *)
(* src/endpoint_client.rs, src/utils/path_params.rs                        *)
(***************************************************************************)
\* an EndpointParameter as convert_remote_endpoints_enhanced builds it:
\* required and alternatives are always Some, semantic_value is None
EndpointParameter(name, description, required, alternatives) ==
    [ name |-> name, description |-> description, required |-> <<required>>,
      alternatives |-> <<alternatives>>, semantic_value |-> <<>> ]

\* the EnhancedEndpoint list the remote endpoint service returns for the user.
\* A path is the sequence of its pieces: literal text or a {placeholder}.
\* A description is a tuple of the pieces a format! joins.
Catalog ==
    << [ id |-> "send_email", name |-> "Send Email",
         path |-> << <<"lit", "/emails">> >>,
         parameters |-> << EndpointParameter("to", <<"Recipient address">>, TRUE, <<"recipient">>),
                           EndpointParameter("recipient", <<"Recipient">>, FALSE, <<>>),
                           EndpointParameter("subject", <<"Subject line">>, TRUE, <<>>) >> ],
       [ id |-> "get_user", name |-> "Get User",
         path |-> << <<"lit", "/users/">>, <<"var", "id">> >>,
         parameters |-> << EndpointParameter("name", <<"Display name">>, TRUE, <<>>) >> ] >>

\* enhanced_endpoints.iter().find(|e| e.id == id): index in the catalog, 0 when absent
FindEndpoint(endpoints, id) ==
    IF \E i \in 1..Len(endpoints) : endpoints[i].id = id
    THEN CHOOSE i \in 1..Len(endpoints) :
            /\ endpoints[i].id = id
            /\ \A j \in 1..(i - 1) : endpoints[j].id # id
    ELSE 0

\* extract_path_params_from_path: the names captured by \{([^}]+)\}, as the key
\* set of the HashMap; None when there is no capture
extract_path_params_from_path(path) ==
    LET params == { path[i][2] : i \in { j \in 1..Len(path) : path[j][1] = "var" } }
    IN  IF params = {} THEN <<>> ELSE << params >>

\* the orders in which a HashMap with key set S may be iterated
Enumerations(S) ==
    { f \in [1..Cardinality(S) -> S] : \A i, j \in 1..Cardinality(S) : i # j => f[i] # f[j] }

\* the iteration orders of the path parameters of a path
PathParamOrders(path) ==
    IF extract_path_params_from_path(path) = <<>> THEN { <<>> }
    ELSE Enumerations(extract_path_params_from_path(path)[1])

\* variant in which the synthetic parameter is optional
PathEndpointParameterOptional(param_name) ==
    [ name |-> param_name, description |-> <<"URL path parameter: ", param_name>>,
      required |-> <<FALSE>>, alternatives |-> <<>>, semantic_value |-> <<>> ]

\* the synthetic EndpointParameter pushed for an undeclared placeholder
PathEndpointParameter(param_name) ==
    [ name |-> param_name, description |-> <<"URL path parameter: ", param_name>>,
      required |-> <<TRUE>>, alternatives |-> <<>>, semantic_value |-> <<>> ]

\* add_path_parameters_to_list: for (param_name, _) in path_params { ... }
RECURSIVE AddPathParameters(_, _, _)
AddPathParameters(parameters, all_endpoint_parameters, order) ==
    IF order = <<>> THEN <<parameters, all_endpoint_parameters>>
    ELSE LET param_name == Head(order)
             eps == IF FindByName(all_endpoint_parameters, param_name) = 0
                    THEN Append(all_endpoint_parameters, PathEndpointParameter(param_name))
                    ELSE all_endpoint_parameters
             pms == IF FindByName(parameters, param_name) = 0
                    THEN Append(parameters,
                                [ name |-> param_name,
                                  description |-> <<"URL path parameter: ", param_name>>,
                                  value |-> <<>> ])
                    ELSE parameters
         IN  AddPathParameters(pms, eps, Tail(order))

\* add_path_parameters_to_list(endpoint, parameters), the HashMap iterated in `order`
add_path_parameters_to_list(endpoint, parameters, order) ==
    AddPathParameters(parameters, endpoint.parameters, order)

(***************************************************************************)
(* MatchingInfo: src/models/mod.rs                                         *)
(***************************************************************************)
\* str::trim on the strings of the model
Trim(s) == CASE s = " " -> "" [] s = " v2" -> "v2" [] OTHER -> s

\* has_valid_value: param.value.as_ref().map(|v| !v.trim().is_empty())
has_valid_value(param) ==
    IF param.value = <<>> THEN <<>> ELSE << Trim(param.value[1]) # "" >>

\* index of the last entry of params named n, 0 when there is none: what a
\* HashMap collected from (name, entry) pairs keeps for a repeated name
FindLastByName(params, n) ==
    IF \E i \in 1..Len(params) : params[i].name = n
    THEN CHOOSE i \in 1..Len(params) :
            /\ params[i].name = n
            /\ \A j \in (i + 1)..Len(params) : params[j].name # n
    ELSE 0

\* variant in which the last definition of a name is the one that counts
ParameterResultLastDefinition(name, parameters, endpoint_params) ==
    LET endpoint_param == endpoint_params[FindLastByName(endpoint_params, name)]
        matched_param == FindLastByName(parameters, name)
        has_value == IF matched_param = 0 THEN <<>>
                     ELSE has_valid_value(parameters[matched_param])
    IN  [ endpoint_param |-> endpoint_param,
          has_value |-> IF has_value = <<>> THEN FALSE ELSE has_value[1] ]

\* the ParameterResult of one unique endpoint parameter name: its first
\* definition (unique_params.entry(..).or_insert) and whether the match has a value
ParameterResult(name, parameters, endpoint_params) ==
    LET endpoint_param == endpoint_params[FindByName(endpoint_params, name)]
        matched_param == FindLastByName(parameters, name)
        has_value == IF matched_param = 0 THEN <<>>
                     ELSE has_valid_value(parameters[matched_param])
    IN  [ endpoint_param |-> endpoint_param,
          has_value |-> IF has_value = <<>> THEN FALSE ELSE has_value[1] ]

\* the orders in which unique_params.values() may be iterated
ComputeOrders(endpoint_params) ==
    Enumerations({ endpoint_params[i].name : i \in 1..Len(endpoint_params) })

\* variant that never reports Partial
MatchingStatusNoPartial(mapped_required_fields, total_required_fields) ==
    IF total_required_fields = 0 \/ mapped_required_fields = total_required_fields
    THEN "Complete"
    ELSE "Incomplete"

\* MatchingInfo::compute, "Determine status"
MatchingStatusOf(mapped_required_fields, total_required_fields) ==
    IF total_required_fields = 0 \/ mapped_required_fields = total_required_fields
    THEN "Complete"
    ELSE IF mapped_required_fields > 0 THEN "Partial" ELSE "Incomplete"

\* MatchingInfo::compute, unique_params iterated in `order`; the f32 percentage
\* is kept as its integer part
compute(parameters, endpoint_params, order) ==
    LET results == [i \in 1..Len(order) |->
                        ParameterResult(order[i], parameters, endpoint_params)]
        is_required(r) == IF r.endpoint_param.required = <<>> THEN FALSE
                          ELSE r.endpoint_param.required[1]
        required_results == SelectSeq(results, is_required)
        optional_results == SelectSeq(results, LAMBDA r : ~is_required(r))
        mapped(rs) == Len(SelectSeq(rs, LAMBDA r : r.has_value))
        missing(rs) ==
            LET unmapped == SelectSeq(rs, LAMBDA r : ~r.has_value)
            IN  [i \in 1..Len(unmapped) |->
                    [ name |-> unmapped[i].endpoint_param.name,
                      description |-> unmapped[i].endpoint_param.description ]]
        total_required_fields == Len(required_results)
        mapped_required_fields == mapped(required_results)
    IN  [ status |-> MatchingStatusOf(mapped_required_fields, total_required_fields),
          total_required_fields |-> total_required_fields,
          mapped_required_fields |-> mapped_required_fields,
          total_optional_fields |-> Len(optional_results),
          mapped_optional_fields |-> mapped(optional_results),
          completion_percentage |->
              IF total_required_fields > 0
              THEN (mapped_required_fields * 100) \div total_required_fields
              ELSE 100,
          missing_required_fields |-> missing(required_results),
          missing_optional_fields |-> missing(optional_results) ]

\* str::to_lowercase on the strings of the model
Lower(s) ==
    CASE s = "Send Email" -> "send email"
      [] s = "Get User" -> "get user"
      [] s = "Create Event" -> "create event"
      [] s = "Recipient address" -> "recipient address"
      [] s = "Recipient" -> "recipient"
      [] s = "Subject line" -> "subject line"
      [] s = "Display name" -> "display name"
      [] s = "Event title" -> "event title"
      [] s = "Day of the event" -> "day of the event"
      [] s = "URL path parameter: " -> "url path parameter: "
      [] s = "Missing required parameter: " -> "missing required parameter: "
      [] OTHER -> s

\* str::len of the strings of the model
StrLen(s) ==
    CASE s = "to" -> 2
      [] s = "id" -> 2
      [] s = "d1" -> 2
      [] s = "name" -> 4
      [] s = "date" -> 4
      [] s = "title" -> 5
      [] s = "subject" -> 7
      [] s = "recipient" -> 9
      [] s = "Recipient" -> 9
      [] s = "calendar_id" -> 11
      [] s = "calendar id" -> 11
      [] s = "Event title" -> 11
      [] s = "Subject line" -> 12
      [] s = "Display name" -> 12
      [] s = "Day of the event" -> 16
      [] s = "Recipient address" -> 17
      [] s = "URL path parameter: " -> 20
      [] s = "Missing required parameter: " -> 28
      [] OTHER -> 0

\* the length of a string given by the pieces a format! joined
RECURSIVE PiecesLen(_)
PiecesLen(pieces) ==
    IF pieces = <<>> THEN 0 ELSE StrLen(Head(pieces)) + PiecesLen(Tail(pieces))

\* field_name.replace('_', " ").replace('-', " ")
NaturalName(field_name) ==
    IF field_name = "calendar_id" THEN "calendar id" ELSE field_name

\* MatchingInfo::format_field_request: the lower-cased description when it is
\* more than 5 characters longer than the natural name and does not start with
\* "missing parameter", else "the <natural name>"
format_field_request(field_name, field_description) ==
    LET natural_name == NaturalName(field_name)
    IN  IF /\ PiecesLen(field_description) > StrLen(natural_name) + 5
           /\ field_description # <<>>
           /\ Lower(Head(field_description)) \notin { "missing parameter", "missing parameter: " }
        THEN [i \in 1..Len(field_description) |-> Lower(field_description[i])]
        ELSE <<"the ", natural_name>>

\* [String]::join over strings given by their pieces
RECURSIVE Join(_, _)
Join(strings, separator) ==
    IF strings = <<>> THEN <<>>
    ELSE IF Len(strings) = 1 THEN Head(strings)
    ELSE Head(strings) \o <<separator>> \o Join(Tail(strings), separator)

\* variant that uses the list wording from two missing fields on
generate_user_prompt_list_from_two(matching_info, endpoint_name) ==
    LET missing == matching_info.missing_required_fields
        field_list == [i \in 1..Len(missing) |->
                          format_field_request(missing[i].name, missing[i].description)]
    IN  IF missing = <<>> THEN <<>>
        ELSE IF Len(missing) = 1
        THEN << <<"To proceed with ", Lower(endpoint_name),
                  ", I need one more piece of information: ">>
                \o field_list[1] \o <<". Could you please provide that?">> >>
        ELSE << <<"To process your ", Lower(endpoint_name),
                  " request, I need a few more details: ">>
                \o Join(SubSeq(field_list, 1, Len(field_list) - 1), ", ")
                \o <<", and ">> \o field_list[Len(field_list)]
                \o <<". Could you provide this information?">> >>

\* MatchingInfo::generate_user_prompt: None when nothing required is missing, else
\* one of three format! templates over the missing fields, as the pieces joined
generate_user_prompt(matching_info, endpoint_name) ==
    LET missing == matching_info.missing_required_fields
        field_list == [i \in 1..Len(missing) |->
                          format_field_request(missing[i].name, missing[i].description)]
    IN  IF missing = <<>> THEN <<>>
        ELSE IF Len(missing) = 1
        THEN << <<"To proceed with ", Lower(endpoint_name),
                  ", I need one more piece of information: ">>
                \o field_list[1] \o <<". Could you please provide that?">> >>
        ELSE IF Len(missing) = 2
        THEN << <<"To complete your ", Lower(endpoint_name), " request, I need ">>
                \o field_list[1] \o <<" and ">> \o field_list[2]
                \o <<". Could you provide these details?">> >>
        ELSE << <<"To process your ", Lower(endpoint_name),
                  " request, I need a few more details: ">>
                \o Join(SubSeq(field_list, 1, Len(field_list) - 1), ", ")
                \o <<", and ">> \o field_list[Len(field_list)]
                \o <<". Could you provide this information?">> >>

(***************************************************************************)
(* Response builders: src/analysis/response_builders.rs                    *)
(***************************************************************************)
\* result.matched_parameters mapped to ParameterMatch with value: Some(param.value)
BaseParameters(matched_parameters) ==
    [i \in 1..Len(matched_parameters) |->
        [ name |-> matched_parameters[i].name,
          description |-> matched_parameters[i].description,
          value |-> << matched_parameters[i].value >> ]]

\* create_complete_progressive_response; the two HashMaps iterated in
\* path_order and compute_order
create_complete_progressive_response(endpoint, result, path_order, compute_order) ==
    LET lists == add_path_parameters_to_list(endpoint,
                     BaseParameters(result.matched_parameters), path_order)
        matching_info == compute(lists[1], lists[2], compute_order)
    IN  [ endpoint_id |-> endpoint.id,
          parameters |-> lists[1],
          raw_type |-> "progressive_complete",
          matching_info |-> matching_info,
          user_prompt |-> <<>>,
          intent |-> "ActionableRequest" ]

\* generate_missing_fields_prompt: one of four templates over the missing names
generate_missing_fields_prompt(missing_params) ==
    [ template |-> CASE Len(missing_params) = 0 -> "All required information has been provided."
                     [] Len(missing_params) = 1 -> "I need one more piece of information"
                     [] Len(missing_params) = 2 -> "I need two more pieces of information"
                     [] OTHER -> "I need a few more details",
      endpoint_name |-> "",
      fields |-> missing_params ]

\* create_partial_progressive_response
create_partial_progressive_response(endpoint, result, path_order) ==
    LET lists == add_path_parameters_to_list(endpoint,
                     BaseParameters(result.matched_parameters), path_order)
        matching_info ==
            [ status |-> "Partial",
              total_required_fields |-> Len(lists[2]),
              mapped_required_fields |->
                  Len(SelectSeq(lists[1], LAMBDA p : p.value # <<>>)),
              total_optional_fields |-> 0,
              mapped_optional_fields |-> 0,
              completion_percentage |-> result.completion_percentage,
              missing_required_fields |->
                  [i \in 1..Len(result.missing_parameters) |->
                      [ name |-> result.missing_parameters[i],
                        description |-> <<"Missing required parameter: ",
                                          result.missing_parameters[i]>> ]],
              missing_optional_fields |-> <<>> ]
    IN  [ endpoint_id |-> endpoint.id,
          parameters |-> lists[1],
          raw_type |-> "progressive_partial",
          matching_info |-> matching_info,
          user_prompt |-> << generate_missing_fields_prompt(result.missing_parameters) >>,
          intent |-> "ActionableRequest" ]

\* the MatchingInfo literal of the fallback, help and general builders
NoFieldsMatchingInfo ==
    [ status |-> "Complete", total_required_fields |-> 0, mapped_required_fields |-> 0,
      total_optional_fields |-> 0, mapped_optional_fields |-> 0,
      completion_percentage |-> 100,
      missing_required_fields |-> <<>>, missing_optional_fields |-> <<>> ]

\* variant of the fallback builder that keeps the intent of the failed request
create_fallback_response_actionable ==
    [ endpoint_id |-> "general_conversation_fallback", parameters |-> <<>>,
      raw_type |-> "general_conversation_fallback",
      matching_info |-> NoFieldsMatchingInfo, user_prompt |-> <<>>,
      intent |-> "ActionableRequest" ]

\* create_fallback_response, when handle_general_question succeeded
create_fallback_response ==
    [ endpoint_id |-> "general_conversation_fallback", parameters |-> <<>>,
      raw_type |-> "general_conversation_fallback",
      matching_info |-> NoFieldsMatchingInfo, user_prompt |-> <<>>,
      intent |-> "GeneralQuestion" ]

\* create_help_response, when handle_help_request succeeded
create_help_response ==
    [ endpoint_id |-> "help_capabilities", parameters |-> <<>>,
      raw_type |-> "help_request",
      matching_info |-> NoFieldsMatchingInfo, user_prompt |-> <<>>,
      intent |-> "HelpRequest" ]

\* create_general_response, when handle_general_question succeeded
create_general_response ==
    [ endpoint_id |-> "general_conversation", parameters |-> <<>>,
      raw_type |-> "general_conversation",
      matching_info |-> NoFieldsMatchingInfo, user_prompt |-> <<>>,
      intent |-> "GeneralQuestion" ]

(***************************************************************************)
(* The actionable workflow, as far as its result depends on it:            *)
(* src/analysis/retry_logic.rs, src/workflow/steps/*.rs                    *)
(***************************************************************************)
\* PathParameterExtractionStep: context.parameters = the endpoint's parameters
\* followed by one synthetic parameter per undeclared placeholder
PathParameterExtractionStep(endpoint, path_order) ==
    AddPathParameters(<<>>, endpoint.parameters, path_order)[2]

\* FieldMatchingStep: every context parameter that match_fields_semantic names
\* takes the value it found (None included)
FieldMatchingStep(parameters, semantic_results) ==
    [i \in 1..Len(parameters) |->
        IF FindByName(semantic_results, parameters[i].name) # 0
        THEN [parameters[i] EXCEPT !.semantic_value =
                 semantic_results[FindByName(semantic_results, parameters[i].name)].value]
        ELSE parameters[i]]

\* the results match_fields_semantic may return: one entry per declared
\* parameter of the matched endpoint, with no value or a non-blank value
SemanticResults(endpoint) ==
    { [i \in 1..Len(endpoint.parameters) |->
          [ name |-> endpoint.parameters[i].name, value |-> vals[i] ]] :
      vals \in [1..Len(endpoint.parameters) -> { <<>>, <<"v1">> }] }

\* try_actionable_analysis after engine.execute returned the context
try_actionable_analysis(endpoint, context_parameters, compute_order) ==
    LET parameter_matches ==
            [i \in 1..Len(context_parameters) |->
                [ name |-> context_parameters[i].name,
                  description |-> context_parameters[i].description,
                  value |-> context_parameters[i].semantic_value ]]
        matching_info == compute(parameter_matches, context_parameters, compute_order)
    IN  [ endpoint_id |-> endpoint.id,
          parameters |-> parameter_matches,
          raw_type |-> "workflow",
          matching_info |-> matching_info,
          user_prompt |-> generate_user_prompt(matching_info, endpoint.name),
          intent |-> "ActionableRequest" ]

\* bound on the number of words of a sentence and of a provider response
MaxWords == 2

\* the words provider responses and sentences of the model are made of; a text
\* is the sequence of its words
ResponseWords == { "ACTIONABLE", "Actionable", "help", "General", "UNHELPFUL", "ok" }
SentenceWords == { "Help", "playlist", "send", "What can I do" }

\* str::to_uppercase on the words of the model
to_uppercase(word) ==
    CASE word = "Actionable" -> "ACTIONABLE"
      [] word = "help" -> "HELP"
      [] word = "Help" -> "HELP"
      [] word = "General" -> "GENERAL"
      [] word = "ok" -> "OK"
      [] word = "playlist" -> "PLAYLIST"
      [] word = "send" -> "SEND"
      [] word = "What can I do" -> "WHAT CAN I DO"
      [] OTHER -> word

\* str::to_lowercase on the words of the model
to_lowercase(word) ==
    CASE word = "ACTIONABLE" -> "actionable"
      [] word = "Actionable" -> "actionable"
      [] word = "Help" -> "help"
      [] word = "HELP" -> "help"
      [] word = "General" -> "general"
      [] word = "GENERAL" -> "general"
      [] word = "UNHELPFUL" -> "unhelpful"
      [] word = "What can I do" -> "what can i do"
      [] OTHER -> word

\* whether needle is a substring of a word, case-sensitively
occurs(word, needle) ==
    \/ word = needle
    \/ word = "UNHELPFUL" /\ needle = "HELP"
    \/ word = "unhelpful" /\ needle = "help"
    \/ word = "playlist" /\ needle = "list"
    \/ word = "PLAYLIST" /\ needle = "LIST"

\* str::contains on a text for a needle that holds no word separator of the text
contains(text, needle) == \E i \in 1..Len(text) : occurs(text[i], needle)

\* the help_keywords array of classify_intent
help_keywords ==
    { "what can i do", "que puis-je faire",
      "qu'est-ce que je peux faire avec cette application",
      "what can i do with this app", "help", "aide", "aidez-moi", "available",
      "disponible", "options", "capabilities", "capacités", "features",
      "fonctionnalités", "how to use", "comment utiliser", "show me", "montre-moi",
      "list", "lister", "was kann ich", "hilfe", "wie kann", "fähigkeiten",
      "qué puedo", "ayuda", "ayúdame", "cómo", "capacidades" }

\* variant that looks for HELP before ACTIONABLE
classify_intent_help_first(sentence, response) ==
    LET response_upper == [i \in 1..Len(response) |-> to_uppercase(response[i])]
        sentence_lower == [i \in 1..Len(sentence) |-> to_lowercase(sentence[i])]
    IN  IF contains(response_upper, "HELP") THEN "HelpRequest"
        ELSE IF contains(response_upper, "ACTIONABLE") THEN "ActionableRequest"
        ELSE IF contains(response_upper, "GENERAL") THEN "GeneralQuestion"
        ELSE IF \E keyword \in help_keywords : contains(sentence_lower, keyword)
        THEN "HelpRequest"
        ELSE "GeneralQuestion"

\* classify_intent after provider.generate answered response: the keywords of
\* the upper-cased response in precedence order, then the help keywords of the
\* lower-cased sentence, then the general default
classify_intent(sentence, response) ==
    LET response_upper == [i \in 1..Len(response) |-> to_uppercase(response[i])]
        sentence_lower == [i \in 1..Len(sentence) |-> to_lowercase(sentence[i])]
    IN  IF contains(response_upper, "ACTIONABLE") THEN "ActionableRequest"
        ELSE IF contains(response_upper, "HELP") THEN "HelpRequest"
        ELSE IF contains(response_upper, "GENERAL") THEN "GeneralQuestion"
        ELSE IF \E keyword \in help_keywords : contains(sentence_lower, keyword)
        THEN "HelpRequest"
        ELSE "GeneralQuestion"

(***************************************************************************)
(* Follow-up parameter extraction: src/analysis/parameter_extraction.rs    *)
(***************************************************************************)
\* the JSON objects the model may answer a follow-up with: (key, value) entries
\* with distinct keys, a value being a string (Some) or not a string (None)
FollowupJsonEntries ==
    { [ key |-> k, value |-> v ] :
        k \in {"to", "recipient", "subject", "name"},
        v \in { <<"v2">>, <<" v2">>, <<" ">>, <<>> } }

FollowupJsonObjects ==
    { obj \in SeqsUpTo(FollowupJsonEntries, MaxNew) :
        \A i, j \in 1..Len(obj) : i # j => obj[i].key # obj[j].key }

\* extract_parameters_from_followup after sanitize_json: keeps the entries whose
\* value is a non-blank string and whose key names an endpoint parameter
extract_parameters_from_followup(json_result, endpoint_parameters) ==
    LET kept == SelectSeq(json_result,
                    LAMBDA entry : /\ entry.value # <<>>
                                   /\ Trim(entry.value[1]) # ""
                                   /\ FindByName(endpoint_parameters, entry.key) # 0)
    IN  [i \in 1..Len(kept) |->
            [ name |-> kept[i].key,
              value |-> Trim(kept[i].value[1]),
              description |-> <<"User provided value for ", kept[i].key>> ]]

(***************************************************************************)
(* Spec: analyze RPC calls served one after the other by the facade        *)
(* (src/sentence_service.rs), the orchestrator                             *)
(* (src/analysis/analyze_sentence_enhanced.rs) and the follow-up branch    *)
(* (src/analysis/progressive_handler.rs).                                  *)
(***************************************************************************)
\* AnalysisConfig::default().retry_attempts
RetryAttempts == 3

\* endpoint ids a result can carry: the catalog's and the builders' literals
ResultEndpointIds ==
    { Catalog[i].id : i \in 1..Len(Catalog) }
        \cup { "help_capabilities", "general_conversation", "general_conversation_fallback" }

\* conversation ids: Uuid::new_v4 is modelled as the next unused number; in a
\* request 0 stands for the empty string and -1 for an id the service never issued
PipeKeys == (1..MaxConvs) \X ResultEndpointIds

\* how the service was started
Configs ==
    { c \in [ database_url : BOOLEAN, progressive_manager : BOOLEAN, api_url : BOOLEAN ] :
        c.progressive_manager => c.database_url }

\* the locals of a call before it starts
NoRpc ==
    [ pc |-> "idle", supplied |-> <<>>, conversation_id |-> 0, ongoing |-> <<>>,
      ongoing_row |-> <<>>,
      new_parameters |-> <<>>, extracted |-> FALSE, store_failed |-> FALSE,
      completion |-> <<>>, classified |-> FALSE, attempts |-> 0, last_error |-> <<>>,
      exhausted |-> FALSE, fallback_to_general |-> <<>>, result |-> <<>>,
      error |-> <<>>, post |-> "none", frames |-> <<>>, receiver_closed |-> FALSE,
      status |-> <<>> ]

Init ==
    /\ db = EmptyTable(PipeKeys)
    /\ nops = 0
    /\ cfg \in Configs
    /\ conversations = <<>>
    /\ messages = <<>>
    /\ started = 0
    /\ call = NoRpc
    /\ IdleStoreAux /\ IdleCommute /\ IdleFollow /\ IdleUpd /\ IdleCompute /\ IdleUnits

\* ConversationManager::start_conversation: a fresh id with its metadata and an
\* empty message list
start_conversation(convs) == Len(convs) + 1

\* ensure_conversation_id: a known non-empty id is kept, anything else starts a
\* new conversation
ensure_conversation_id(convs, supplied) ==
    IF supplied # <<>> /\ supplied[1] # 0 /\ supplied[1] \in DOMAIN convs
    THEN supplied[1]
    ELSE start_conversation(convs)

\* variant that ensures the conversation before it validates the email
RpcStartEnsureFirst(email_valid, supplied) ==
    /\ call.pc \in {"idle", "finished"}
    /\ started < MaxCalls
    /\ \/ ensure_conversation_id(conversations, supplied) \in DOMAIN conversations
       \/ Len(conversations) < MaxConvs
    /\ started' = started + 1
    /\ LET id == ensure_conversation_id(conversations, supplied)
       IN  /\ call' = IF email_valid
                      THEN [NoRpc EXCEPT !.pc = "gate", !.supplied = supplied,
                                         !.conversation_id = id]
                      ELSE [NoRpc EXCEPT !.pc = "finished", !.supplied = supplied,
                                         !.status = <<"InvalidArgument">>]
           /\ IF id \in DOMAIN conversations
              THEN UNCHANGED <<conversations, messages>>
              ELSE /\ conversations' = Append(conversations, [message_count |-> 0])
                   /\ messages' = Append(messages, <<>>)
    /\ UNCHANGED <<db, nops, cfg, storeAux, commuteVars, followVars, updVars, computeVars, unitVars>>

\* analyze_sentence up to tokio::spawn: get_email_validated, ensure_conversation_id
RpcStart(email_valid, supplied) ==
    /\ call.pc \in {"idle", "finished"}
    /\ started < MaxCalls
    /\ email_valid =>
          \/ ensure_conversation_id(conversations, supplied) \in DOMAIN conversations
          \/ Len(conversations) < MaxConvs
    /\ started' = started + 1
    /\ IF ~email_valid
       THEN /\ call' = [NoRpc EXCEPT !.pc = "finished", !.supplied = supplied,
                                     !.status = <<"InvalidArgument">>]
            /\ UNCHANGED <<conversations, messages>>
       ELSE LET id == ensure_conversation_id(conversations, supplied)
            IN  /\ call' = [NoRpc EXCEPT !.pc = "gate", !.supplied = supplied,
                                         !.conversation_id = id]
                /\ IF id \in DOMAIN conversations
                   THEN UNCHANGED <<conversations, messages>>
                   ELSE /\ conversations' = Append(conversations, [message_count |-> 0])
                        /\ messages' = Append(messages, <<>>)
    /\ UNCHANGED <<db, nops, cfg, storeAux, commuteVars, followVars, updVars, computeVars, unitVars>>

\* get_incomplete_match: SELECT ... WHERE conversation_id = $1 LIMIT 1 returns
\* any one row of the conversation; the set of possible answers
get_incomplete_match(table, conversation_id) ==
    LET rows == { k \in DOMAIN table : k[1] = conversation_id /\ table[k] # <<>> }
    IN  IF rows = {} THEN { <<>> }
        ELSE { << [ endpoint_id |-> k[2], parameters |-> table[k][1].parameters ] >> :
               k \in rows }

\* analyze_sentence_enhanced up to the outcome of get_incomplete_match
Gate(store_ok) ==
    /\ call.pc = "gate"
    /\ IF ~cfg.api_url
       THEN call' = [call EXCEPT !.pc = "reply", !.error = <<"No API URL provided">>]
       ELSE IF ~cfg.database_url \/ ~store_ok
       THEN call' = [call EXCEPT !.pc = "normal"]
       ELSE \E found \in get_incomplete_match(db, call.conversation_id) :
               IF found = <<>>
               THEN call' = [call EXCEPT !.pc = "normal"]
               ELSE call' = [call EXCEPT !.pc = "followup",
                                         !.ongoing = << found[1].endpoint_id >>,
                                         !.ongoing_row =
                                             db[<<call.conversation_id, found[1].endpoint_id>>]]
    /\ UNCHANGED <<db, nops, cfg, conversations, messages, started,
                   storeAux, commuteVars, followVars, updVars, computeVars, unitVars>>

\* where analyze_sentence_enhanced goes after handle_progressive_followup: an Ok
\* result is returned to the caller, an Err falls through to the normal flow
AfterFollowupAlwaysNormal(ok) == "normal"

AfterFollowup(ok) == IF ok THEN "post" ELSE "normal"

\* handle_progressive_followup returned Err: its locals are gone, the call goes on
FollowupErr(store_error) ==
    [call EXCEPT !.pc = AfterFollowup(FALSE), !.new_parameters = <<>>,
                 !.completion = <<>>, !.store_failed = store_error]

\* the endpoint of the ongoing match, as handle_progressive_followup finds it
OngoingEndpoint == Catalog[FindEndpoint(Catalog, call.ongoing[1])]

\* handle_progressive_followup up to "if new_parameters.is_empty()": catalog
\* fetch, endpoint lookup, extraction
FollowupExtractNoEmptyCheck(fetch_ok, llm) ==
    /\ call.pc = "followup"
    /\ IF ~fetch_ok \/ FindEndpoint(Catalog, call.ongoing[1]) = 0 \/ llm = <<>>
       THEN call' = FollowupErr(FALSE)
       ELSE LET new_parameters ==
                    extract_parameters_from_followup(llm[1], OngoingEndpoint.parameters)
            IN  call' = [call EXCEPT !.new_parameters = << new_parameters >>,
                                     !.extracted = new_parameters # <<>>,
                                     !.pc = "fu_update"]
    /\ UNCHANGED <<db, nops, cfg, conversations, messages, started,
                   storeAux, commuteVars, followVars, updVars, computeVars, unitVars>>

FollowupExtract(fetch_ok, llm) ==
    /\ call.pc = "followup"
    /\ IF ~fetch_ok \/ FindEndpoint(Catalog, call.ongoing[1]) = 0 \/ llm = <<>>
       THEN call' = FollowupErr(FALSE)
       ELSE LET new_parameters ==
                    extract_parameters_from_followup(llm[1], OngoingEndpoint.parameters)
            IN  IF new_parameters = <<>>
                THEN call' = FollowupErr(FALSE)
                ELSE call' = [call EXCEPT !.new_parameters = << new_parameters >>,
                                          !.extracted = TRUE, !.pc = "fu_update"]
    /\ UNCHANGED <<db, nops, cfg, conversations, messages, started,
                   storeAux, commuteVars, followVars, updVars, computeVars, unitVars>>

\* handle_progressive_followup: progressive_manager.update_match(..).await?
FollowupUpdate(store_ok) ==
    /\ call.pc = "fu_update"
    /\ IF store_ok
       THEN /\ db' = update_match(db, call.conversation_id, call.ongoing[1],
                                  call.new_parameters[1], nops + 1)
            /\ nops' = nops + 1
            /\ call' = [call EXCEPT !.pc = "fu_check"]
       ELSE /\ call' = FollowupErr(TRUE)
            /\ UNCHANGED <<db, nops>>
    /\ UNCHANGED <<cfg, conversations, messages, started,
                   storeAux, commuteVars, followVars, updVars, computeVars, unitVars>>

\* the names of the parameters an endpoint declares required
RequiredParamNames(endpoint_parameters) ==
    LET required == SelectSeq(endpoint_parameters,
                        LAMBDA p : IF p.required = <<>> THEN FALSE ELSE p.required[1])
    IN  [i \in 1..Len(required) |-> required[i].name]

\* handle_progressive_followup: check_completion and, when the match is still
\* incomplete, create_partial_progressive_response
FollowupCheck(store_ok, path_order) ==
    /\ call.pc = "fu_check"
    /\ IF store_ok
       THEN LET completion_result ==
                    check_completion(db, call.conversation_id, call.ongoing[1],
                                     RequiredParamNames(OngoingEndpoint.parameters),
                                     OngoingEndpoint.parameters)
            IN  IF completion_result.is_complete
                THEN call' = [call EXCEPT !.completion = << completion_result >>,
                                          !.pc = "fu_complete"]
                ELSE call' = [call EXCEPT
                                 !.completion = << completion_result >>,
                                 !.result = << create_partial_progressive_response(
                                                   OngoingEndpoint, completion_result,
                                                   path_order) >>,
                                 !.pc = AfterFollowup(TRUE), !.ongoing_row = <<>>]
       ELSE call' = FollowupErr(TRUE)
    /\ UNCHANGED <<db, nops, cfg, conversations, messages, started,
                   storeAux, commuteVars, followVars, updVars, computeVars, unitVars>>

\* handle_progressive_followup: complete_match, create_complete_progressive_response
FollowupComplete(store_ok, path_order, compute_order) ==
    /\ call.pc = "fu_complete"
    /\ IF store_ok
       THEN /\ db' = complete_match(db, call.conversation_id, call.ongoing[1])
            /\ call' = [call EXCEPT
                           !.result = << create_complete_progressive_response(
                                             OngoingEndpoint, call.completion[1],
                                             path_order, compute_order) >>,
                           !.pc = AfterFollowup(TRUE), !.ongoing_row = <<>>]
       ELSE /\ call' = FollowupErr(TRUE)
            /\ UNCHANGED db
    /\ UNCHANGED <<nops, cfg, conversations, messages, started,
                   storeAux, commuteVars, followVars, updVars, computeVars, unitVars>>

\* error messages are the sequences of the fragments a format! joins;
\* String::contains(needle) holds when needle is one of the fragments
ErrorContains(message, needle) == \E i \in 1..Len(message) : message[i] = needle

\* what get_enhanced_endpoints may fail with: the stream completed with zero
\* endpoints, or the transport failed
FetchErrors ==
    { <<"No endpoints available for user", " '", "email", "'">>, <<"transport error">> }

\* what the workflow engine may fail with: no endpoint matched, the matched id is
\* not in the catalog, the configuration-loading step found the catalog empty
\* (the error of get_enhanced_endpoints, wrapped), the provider failed
WorkflowErrors ==
    { <<"No suitable endpoint found", " for the given input">>,
      <<"Endpoint ID '", "id", "' ", "not found in available endpoints">>,
      <<"Failed to fetch enhanced endpoints: ",
        "No endpoints available for user", " '", "email", "'">>,
      <<"provider error">> }

\* normal flow: get_enhanced_endpoints(api_url_ref, email).await?; the OngoingMatch
\* the gate read is out of scope here
NormalFetch(fetched) ==
    /\ call.pc = "normal"
    /\ IF fetched = <<>>
       THEN call' = [call EXCEPT !.pc = "classify", !.ongoing_row = <<>>]
       ELSE call' = [call EXCEPT !.pc = "reply", !.error = fetched, !.ongoing_row = <<>>]
    /\ UNCHANGED <<db, nops, cfg, conversations, messages, started,
                   storeAux, commuteVars, followVars, updVars, computeVars, unitVars>>

\* normal flow: classify_intent(..).await? and the match on the intent
Classify(llm_ok, sentence, response) ==
    /\ call.pc = "classify"
    /\ IF ~llm_ok
       THEN call' = [call EXCEPT !.pc = "reply", !.error = <<"provider error">>]
       ELSE LET intent == classify_intent(sentence, response)
            IN  call' = [call EXCEPT !.classified = TRUE,
                                     !.pc = CASE intent = "ActionableRequest" -> "workflow"
                                              [] intent = "HelpRequest" -> "help"
                                              [] OTHER -> "general"]
    /\ UNCHANGED <<db, nops, cfg, conversations, messages, started,
                   storeAux, commuteVars, followVars, updVars, computeVars, unitVars>>

\* IntentType::HelpRequest => create_help_response(..).await
Help(llm_ok) ==
    /\ call.pc = "help"
    /\ IF llm_ok
       THEN call' = [call EXCEPT !.pc = "post", !.result = << create_help_response >>]
       ELSE call' = [call EXCEPT !.pc = "reply", !.error = <<"provider error">>]
    /\ UNCHANGED <<db, nops, cfg, conversations, messages, started,
                   storeAux, commuteVars, followVars, updVars, computeVars, unitVars>>

\* IntentType::GeneralQuestion => create_general_response(..).await
General(llm_ok) ==
    /\ call.pc = "general"
    /\ IF llm_ok
       THEN call' = [call EXCEPT !.pc = "post", !.result = << create_general_response >>]
       ELSE call' = [call EXCEPT !.pc = "reply", !.error = <<"provider error">>]
    /\ UNCHANGED <<db, nops, cfg, conversations, messages, started,
                   storeAux, commuteVars, followVars, updVars, computeVars, unitVars>>

\* analyze_with_retry: an attempt of try_actionable_analysis that succeeds; the
\* result is returned at once and the loop counter is gone
WorkflowOk(endpoint, path_order, semantic_results, compute_order) ==
    /\ call.pc = "workflow"
    /\ call' = [call EXCEPT
                   !.attempts = 0,
                   !.last_error = <<>>,
                   !.result = << try_actionable_analysis(
                                     endpoint,
                                     FieldMatchingStep(
                                         PathParameterExtractionStep(endpoint, path_order),
                                         semantic_results),
                                     compute_order) >>,
                   !.pc = "post"]
    /\ UNCHANGED <<db, nops, cfg, conversations, messages, started,
                   storeAux, commuteVars, followVars, updVars, computeVars, unitVars>>

\* variant that runs again after any error while attempts remain
ShouldRetryAnyError(message, attempt) == attempt < RetryAttempts

\* analyze_with_retry, Err(e) arm: whether the loop continues with another attempt
ShouldRetry(message, attempt) ==
    /\ \/ ErrorContains(message, "No suitable endpoint found")
       \/ ErrorContains(message, "not found in available endpoints")
    /\ attempt < RetryAttempts

\* analyze_with_retry: an attempt that fails; an endpoint-matching failure is
\* kept as last_error and retried while attempts remain, any other error ends
\* the loop at once. `exhausted` remembers that the loop ended because every one
\* of the RetryAttempts runs failed to match an endpoint.
WorkflowErr(message) ==
    /\ call.pc = "workflow"
    /\ LET attempt == call.attempts + 1
       IN  IF ShouldRetry(message, attempt)
           THEN call' = [call EXCEPT !.attempts = attempt, !.last_error = << message >>]
           ELSE call' = [call EXCEPT !.attempts = attempt, !.last_error = <<>>,
                                     !.exhausted =
                                         /\ attempt = RetryAttempts
                                         /\ \/ ErrorContains(message, "No suitable endpoint found")
                                            \/ ErrorContains(message,
                                                             "not found in available endpoints"),
                                     !.error = message, !.pc = "retries_failed"]
    /\ UNCHANGED <<db, nops, cfg, conversations, messages, started,
                   storeAux, commuteVars, followVars, updVars, computeVars, unitVars>>

\* Err(e) of analyze_with_retry: create_fallback_response when the
\* fallback_to_general of the AnalysisConfig loaded for this call is set, else
\* the error is returned; the loop counter is gone. The configuration value is
\* recorded in the call when it is read.
Fallback(fallback_to_general, llm_ok) ==
    /\ call.pc = "retries_failed"
    /\ IF fallback_to_general
       THEN IF llm_ok
            THEN call' = [call EXCEPT !.pc = "post", !.error = <<>>, !.attempts = 0,
                                      !.fallback_to_general = <<TRUE>>,
                                      !.result = << create_fallback_response >>]
            ELSE call' = [call EXCEPT !.pc = "reply", !.attempts = 0,
                                      !.fallback_to_general = <<TRUE>>,
                                      !.error = <<"provider error">>]
       ELSE call' = [call EXCEPT !.pc = "reply", !.attempts = 0,
                                 !.fallback_to_general = <<FALSE>>]
    /\ UNCHANGED <<db, nops, cfg, conversations, messages, started,
                   storeAux, commuteVars, followVars, updVars, computeVars, unitVars>>

\* the parameters of the result that carry a value, as ParameterValue
ResultNewParameters(enhanced_result) ==
    LET valued == SelectSeq(enhanced_result.parameters, LAMBDA p : p.value # <<>>)
    IN  [i \in 1..Len(valued) |->
            [ name |-> valued[i].name, value |-> valued[i].value[1],
              description |-> valued[i].description ]]

\* variant in which an error of the integration replaces the result of the call
PostIntegratePropagating(outcome) ==
    /\ call.pc = "post"
    /\ IF cfg.progressive_manager /\ outcome # "update_failed"
       THEN /\ db' = update_match(db, call.conversation_id, call.result[1].endpoint_id,
                                  ResultNewParameters(call.result[1]), nops + 1)
            /\ nops' = nops + 1
            /\ call' = [call EXCEPT !.pc = "reply", !.post = "wrote"]
       ELSE /\ call' = IF cfg.progressive_manager
                       THEN [call EXCEPT !.pc = "reply", !.post = "failed", !.result = <<>>,
                                         !.error = <<"Progressive matching failed">>]
                       ELSE [call EXCEPT !.pc = "reply", !.post = "skipped"]
            /\ UNCHANGED <<db, nops>>
    /\ UNCHANGED <<cfg, conversations, messages, started,
                   storeAux, commuteVars, followVars, updVars, computeVars, unitVars>>

\* the spawned task after Ok(enhanced_result): "Progressive matching
\* integration", run for every successful result when the service has a
\* progressive_manager; its report and its errors are dropped
PostIntegrate(outcome) ==
    /\ call.pc = "post"
    /\ IF cfg.progressive_manager /\ outcome # "update_failed"
       THEN /\ db' = update_match(db, call.conversation_id, call.result[1].endpoint_id,
                                  ResultNewParameters(call.result[1]), nops + 1)
            /\ nops' = nops + 1
            /\ call' = [call EXCEPT !.pc = "reply", !.post = "wrote"]
       ELSE /\ call' = [call EXCEPT !.pc = "reply",
                                    !.post = IF cfg.progressive_manager THEN "failed"
                                             ELSE "skipped"]
            /\ UNCHANGED <<db, nops>>
    /\ UNCHANGED <<cfg, conversations, messages, started,
                   storeAux, commuteVars, followVars, updVars, computeVars, unitVars>>

\* the facade's filter of a missing-field list: the first entry of each name
DedupByName(fields) ==
    LET keep == { i \in 1..Len(fields) : \A j \in 1..(i - 1) : fields[j].name # fields[i].name }
        Nth(k) == CHOOSE i \in keep : Cardinality({ j \in keep : j < i }) = k - 1
    IN  [k \in 1..Cardinality(keep) |-> fields[Nth(k)]]

\* the SentenceResponse built from an Ok result
SentenceResponse(conversation_id, enhanced_result) ==
    [ conversation_id |-> << conversation_id >>,
      endpoint_id |-> enhanced_result.endpoint_id,
      user_prompt |-> enhanced_result.user_prompt,
      intent |-> enhanced_result.intent,
      parameters |-> [i \in 1..Len(enhanced_result.parameters) |->
                         [ name |-> enhanced_result.parameters[i].name,
                           description |-> enhanced_result.parameters[i].description,
                           semantic_value |-> enhanced_result.parameters[i].value ]],
      matching_info |->
          [enhanced_result.matching_info EXCEPT
              !.missing_required_fields = DedupByName(@),
              !.missing_optional_fields = DedupByName(@)] ]

\* the tonic Status an Err of the analysis is mapped to
StatusOf(message) ==
    IF ErrorContains(message, "No endpoints found for user") THEN "NotFound"
    ELSE IF ErrorContains(message, "No endpoint configuration available")
    THEN "FailedPrecondition"
    ELSE "Internal"

\* variant that gives up without sending
SendNothing(frames, item) == frames

\* tx.send(item).await, called once: the items the producer has sent on the channel
Send(frames, item) == Append(frames, item)

\* the rest of the spawned task: add_message and tx.send for an Ok result,
\* tx.send(Err(status)) for an Err. A send that finds the receiver closed is
\* logged and the task ends like after a send that succeeded.
Reply(receiver_open) ==
    /\ call.pc = "reply"
    /\ IF call.result # <<>>
       THEN /\ conversations' = [conversations EXCEPT
                                    ![call.conversation_id].message_count = @ + 1]
            /\ messages' = [messages EXCEPT
                               ![call.conversation_id] =
                                   Append(@, [endpoint_id |-> call.result[1].endpoint_id])]
            /\ call' = [call EXCEPT
                           !.pc = "finished",
                           !.receiver_closed = ~receiver_open,
                           !.frames = Send(@, [ ok |-> TRUE,
                                                response |-> SentenceResponse(
                                                    call.conversation_id,
                                                    call.result[1]) ])]
       ELSE /\ call' = [call EXCEPT
                           !.pc = "finished",
                           !.receiver_closed = ~receiver_open,
                           !.status = << StatusOf(call.error) >>,
                           !.frames = Send(@, [ ok |-> FALSE,
                                                response |-> StatusOf(call.error) ])]
            /\ UNCHANGED <<conversations, messages>>
    /\ UNCHANGED <<db, nops, cfg, started, storeAux, commuteVars, followVars, updVars, computeVars, unitVars>>

Next ==
    \/ \E email_valid \in BOOLEAN,
          supplied \in { <<>>, <<0>>, <<-1>> } \cup { <<c>> : c \in DOMAIN conversations } :
          RpcStart(email_valid, supplied)
    \/ \E store_ok \in BOOLEAN : Gate(store_ok)
    \/ \E fetch_ok \in BOOLEAN, llm \in { <<>> } \cup { <<obj>> : obj \in FollowupJsonObjects } :
          FollowupExtract(fetch_ok, llm)
    \/ \E store_ok \in BOOLEAN : FollowupUpdate(store_ok)
    \/ /\ call.pc = "fu_check"
       /\ \E store_ok \in BOOLEAN, path_order \in PathParamOrders(OngoingEndpoint.path) :
             FollowupCheck(store_ok, path_order)
    \/ /\ call.pc = "fu_complete"
       /\ \E store_ok \in BOOLEAN, path_order \in PathParamOrders(OngoingEndpoint.path) :
             \E compute_order \in
                    ComputeOrders(PathParameterExtractionStep(OngoingEndpoint, path_order)) :
                FollowupComplete(store_ok, path_order, compute_order)
    \/ \E fetched \in { <<>> } \cup FetchErrors : NormalFetch(fetched)
    \/ \E llm_ok \in BOOLEAN, sentence \in SeqsUpTo(SentenceWords, 1),
          response \in SeqsUpTo(ResponseWords, 1) :
          Classify(llm_ok, sentence, response)
    \/ \E llm_ok \in BOOLEAN : Help(llm_ok)
    \/ \E llm_ok \in BOOLEAN : General(llm_ok)
    \/ \E e \in 1..Len(Catalog) :
          \E path_order \in PathParamOrders(Catalog[e].path),
             semantic_results \in SemanticResults(Catalog[e]) :
             \E compute_order \in
                    ComputeOrders(PathParameterExtractionStep(Catalog[e], path_order)) :
                WorkflowOk(Catalog[e], path_order, semantic_results, compute_order)
    \/ \E message \in WorkflowErrors : WorkflowErr(message)
    \/ \E fallback_to_general \in BOOLEAN, llm_ok \in BOOLEAN :
          Fallback(fallback_to_general, llm_ok)
    \/ \E outcome \in {"ok", "update_failed", "check_failed"} : PostIntegrate(outcome)
    \/ \E receiver_open \in BOOLEAN : Reply(receiver_open)

Spec == Init /\ [][Next]_vars

(***************************************************************************)
(* Claims on the analyze pipeline (Spec).                                  *)
(***************************************************************************)
\* the result of the call came from one of the two progressive builders
ProgressiveResult ==
    /\ call.result # <<>>
    /\ call.result[1].raw_type \in {"progressive_complete", "progressive_partial"}

\* C1: in a call whose gate found a row for the conversation, whose follow-up
\* extraction yielded at least one parameter and whose follow-up store operations
\* all succeeded, intent classification and the actionable workflow never run,
\* and what the call returns is the progressive result.
C1_FollowupReturnsEarly ==
    (call.ongoing # <<>> /\ call.extracted /\ ~call.store_failed) =>
        /\ ~call.classified
        /\ call.attempts = 0
        /\ call.pc \in {"fu_update", "fu_check", "fu_complete", "post", "reply", "finished"}
        /\ call.pc \in {"post", "reply", "finished"} => (ProgressiveResult /\ call.error = <<>>)

\* a finished call that took the follow-up branch and delivered a partial result
C1_Witness ==
    /\ call.pc = "finished"
    /\ call.ongoing # <<>> /\ call.extracted /\ ~call.store_failed
    /\ call.result[1].raw_type = "progressive_partial"
    /\ call.frames = << [ ok |-> TRUE,
                          response |-> SentenceResponse(call.conversation_id, call.result[1]) ] >>

\* C8: once a call whose follow-up branch found the match complete has finished,
\* facade post-processing included, the store holds no row for that
\* (conversation_id, endpoint_id).
C8_NoRowAfterCompleteFollowup ==
    ( /\ call.pc = "finished"
      /\ call.result # <<>>
      /\ call.result[1].raw_type = "progressive_complete" )
    => db[<<call.conversation_id, call.result[1].endpoint_id>>] = <<>>

\* C9: a result of the follow-up branch built after check_completion reported
\* is_complete has intent Actionable, status Complete, completion 100, no missing
\* required field and no user_prompt.
C9_CompleteResultIsComplete ==
    ( /\ call.result # <<>>
      /\ call.result[1].raw_type = "progressive_complete"
      /\ call.completion # <<>>
      /\ call.completion[1].is_complete )
    => /\ call.result[1].intent = "ActionableRequest"
       /\ call.result[1].matching_info.status = "Complete"
       /\ call.result[1].matching_info.completion_percentage = 100
       /\ call.result[1].matching_info.missing_required_fields = <<>>
       /\ call.result[1].user_prompt = <<>>

\* C10: the save step after a successful analysis writes to the store only for an
\* Actionable result whose completion is below 100, and (when the service has a
\* store and the write does not fail) for every such result.
C10_SaveOnlyIncompleteActionable ==
    (call.pc \in {"reply", "finished"} /\ call.result # <<>>) =>
        LET incomplete_actionable ==
                /\ call.result[1].intent = "ActionableRequest"
                /\ call.result[1].matching_info.completion_percentage < 100
        IN  /\ call.post = "wrote" => incomplete_actionable
            /\ (incomplete_actionable /\ call.post \notin {"skipped", "failed"})
                  => call.post = "wrote"

\* C11: when the store write of the save step fails, the call keeps its successful
\* result: no error and no error status is set, and the one frame delivered is the
\* response built from the result.
C11_SaveFailureStillDelivers ==
    call.post = "failed" =>
        /\ call.result # <<>>
        /\ call.error = <<>>
        /\ call.status = <<>>
        /\ call.pc = "finished" =>
              call.frames = << [ ok |-> TRUE,
                                 response |-> SentenceResponse(call.conversation_id,
                                                               call.result[1]) ] >>

\* a finished call whose save step failed for a partial actionable result
C11_Witness ==
    /\ call.pc = "finished"
    /\ call.post = "failed"
    /\ call.result[1].intent = "ActionableRequest"
    /\ call.result[1].matching_info.completion_percentage < 100
    /\ Len(call.frames) = 1 /\ call.frames[1].ok

\* the errors analyze_with_retry treats as an endpoint-matching failure
NoSuitableEndpointClass(message) ==
    \E i \in 1..Len(message) :
        message[i] \in {"No suitable endpoint found", "not found in available endpoints"}

\* C12: while analyze_with_retry is running, fewer than retry_attempts runs have
\* failed; a run is followed by another run only when it failed with an error of
\* the "no suitable endpoint" class and attempts remain; a run that succeeds ends
\* the loop with its result; a run that fails with another error, or the
\* retry_attempts-th failure, ends the loop with that error.
C12_RetryOnlyNoSuitableEndpoint ==
    [][ call.pc = "workflow" =>
          /\ call.attempts < RetryAttempts
          /\ call'.pc \in {"workflow", "post", "retries_failed"}
          /\ call'.pc = "workflow" =>
                /\ call'.attempts = call.attempts + 1
                /\ call'.attempts < RetryAttempts
                /\ call'.last_error # <<>>
                /\ NoSuitableEndpointClass(call'.last_error[1])
                /\ call'.result = <<>>
          /\ call'.pc = "post" => (call'.result # <<>> /\ call'.error = <<>>)
          /\ call'.pc = "retries_failed" =>
                /\ call'.result = <<>>
                /\ call'.error \in WorkflowErrors
                /\ \/ ~NoSuitableEndpointClass(call'.error)
                   \/ call.attempts + 1 = RetryAttempts ]_vars

\* the loop is at its last attempt after RetryAttempts - 1 endpoint-matching failures
C12_Witness ==
    /\ call.pc = "workflow"
    /\ call.attempts = RetryAttempts - 1
    /\ call.last_error # <<>>
    /\ NoSuitableEndpointClass(call.last_error[1])

\* the result is the general-conversation fallback
FallbackResult ==
    /\ call.result # <<>>
    /\ call.result[1].intent = "GeneralQuestion"
    /\ call.result[1].endpoint_id = "general_conversation_fallback"
    /\ call.result[1].matching_info.status = "Complete"
    /\ call.result[1].matching_info.total_required_fields = 0

\* C13 as stated: after every one of the retry_attempts runs failed to match an
\* endpoint, analyze returns the fallback result (intent GeneralQuestion,
\* endpoint_id general_conversation_fallback, status Complete, no required field)
\* when fallback_to_general is true, and the last error when it is false.
C13_FallbackAfterRetries ==
    (call.exhausted /\ call.fallback_to_general # <<>>) =>
        IF call.fallback_to_general[1]
        THEN FallbackResult /\ call.error = <<>>
        ELSE call.result = <<>> /\ NoSuitableEndpointClass(call.error)

\* C13 amended: as above, except that with fallback_to_general true the call
\* returns the error of the general-conversation provider call when that call fails.
C13_FallbackUnlessProviderFails ==
    (call.exhausted /\ call.fallback_to_general # <<>>) =>
        IF call.fallback_to_general[1]
        THEN \/ FallbackResult /\ call.error = <<>>
             \/ call.result = <<>> /\ call.error = <<"provider error">>
        ELSE call.result = <<>> /\ NoSuitableEndpointClass(call.error)

\* a finished call that delivered the fallback result after exhausted retries
C13_Witness ==
    /\ call.pc = "finished"
    /\ call.exhausted
    /\ call.fallback_to_general = <<TRUE>>
    /\ FallbackResult
    /\ Len(call.frames) = 1 /\ call.frames[1].ok

\* C14: when the retry loop ended on an error that is not of the "no suitable
\* endpoint" class, analyze returns that error and no result, whatever
\* fallback_to_general is.
C14_OtherErrorsPropagate ==
    (call.fallback_to_general # <<>> /\ ~call.exhausted) =>
        /\ call.result = <<>>
        /\ call.error \in WorkflowErrors
        /\ ~NoSuitableEndpointClass(call.error)

\* C15: a call rejected for its email ends at once with InvalidArgument: the step
\* that rejects it creates no conversation, writes no message and no store row,
\* and the call never gets a conversation id, a producer task (no frame is sent,
\* nothing is classified, extracted, run or saved).
C15_InvalidEmailRejectedFirst ==
    [][ call'.status = <<"InvalidArgument">> =>
          /\ call'.pc = "finished"
          /\ call'.conversation_id = 0
          /\ call'.frames = <<>>
          /\ call'.result = <<>> /\ call'.error = <<>>
          /\ call'.ongoing = <<>> /\ ~call'.extracted /\ ~call'.classified
          /\ call'.attempts = 0 /\ call'.post = "none"
          /\ conversations' = conversations
          /\ messages' = messages
          /\ db' = db /\ nops' = nops ]_vars

\* a rejected call that came with the id of an existing conversation
C15_Witness ==
    /\ call.status = <<"InvalidArgument">>
    /\ call.pc = "finished"
    /\ call.supplied # <<>>
    /\ call.supplied[1] \in DOMAIN conversations

\* C16: a call that passed email validation and came with a non-empty
\* conversation_id works under exactly that id (store lookup, save step, response).
C16_SuppliedIdIsUsed ==
    ( /\ call.pc \notin {"idle"}
      /\ call.status # <<"InvalidArgument">>
      /\ call.supplied # <<>>
      /\ call.supplied[1] # 0 )
    => /\ call.conversation_id = call.supplied[1]
       /\ \A i \in 1..Len(call.frames) :
             call.frames[i].ok => call.frames[i].response.conversation_id = call.supplied

\* C17: a call that passed email validation has sent nothing while its producer
\* task runs and exactly one item when the task has ended: the response frame of
\* its result, or the error status of its error; a send that found the receiver
\* closed is not repeated.
C17_ExactlyOneItem ==
    (call.pc # "idle" /\ call.status # <<"InvalidArgument">>) =>
        IF call.pc = "finished"
        THEN /\ Len(call.frames) = 1
             /\ call.frames[1].ok <=> call.result # <<>>
             /\ call.frames[1].ok =>
                   call.frames[1].response =
                       SentenceResponse(call.conversation_id, call.result[1])
             /\ ~call.frames[1].ok => call.status = << call.frames[1].response >>
        ELSE call.frames = <<>> /\ ~call.receiver_closed

\* the producer sent its one item to a receiver that was already closed
C17_Witness ==
    /\ call.pc = "finished"
    /\ call.receiver_closed
    /\ Len(call.frames) = 1
    /\ ~call.frames[1].ok

\* the error says that the catalog returned no endpoint for the caller's email
ZeroEndpointsError(message) ==
    \E i \in 1..Len(message) : message[i] = "No endpoints available for user"

\* C18: a call that ends on the error of a catalog fetch that returned zero
\* endpoints ends with status NotFound, wherever the fetch was made.
C18_ZeroEndpointsIsNotFound ==
    ( /\ call.pc = "finished"
      /\ call.result = <<>>
      /\ ZeroEndpointsError(call.error) )
    => call.status = <<"NotFound">>

(***************************************************************************)
(* SpecCompute: MatchingInfo::compute applied to bounded inputs, then      *)
(* applied again after a duplicate definition was appended.                *)
(***************************************************************************)
MaxDefs == 2

\* resolved matches: a name with no value, a value, or a blank value
ParameterMatchPool ==
    { [ name |-> n, description |-> <<"d1">>, value |-> v ] :
        n \in {"to", "subject"}, v \in { <<>>, <<"v1">>, <<" ">> } }

\* endpoint parameter definitions: required Some(true), Some(false) or None
EndpointDefinitions(descriptions) ==
    { [ name |-> n, description |-> d, required |-> r,
        alternatives |-> <<>>, semantic_value |-> <<>> ] :
        n \in {"to", "subject"}, d \in descriptions, r \in { <<>>, <<TRUE>>, <<FALSE>> } }

InitCompute ==
    /\ db = EmptyTable(StoreKeys)
    /\ nops = 0
    /\ cm_pc = "input"
    /\ cm_parameters \in SeqsUpTo(ParameterMatchPool, MaxNew)
    /\ cm_endpoint_params \in SeqsUpTo(EndpointDefinitions({ <<"d1">> }), MaxDefs)
    /\ cm_info = <<>>
    /\ cm_info2 = <<>>
    /\ IdleStoreAux /\ IdleCommute /\ IdleFollow /\ IdleUpd /\ IdlePipe /\ IdleUnits

\* MatchingInfo::compute(&parameters, &endpoint_params)
ComputeFirst(order) ==
    /\ cm_pc = "input"
    /\ cm_info' = << compute(cm_parameters, cm_endpoint_params, order) >>
    /\ cm_pc' = "computed"
    /\ UNCHANGED <<db, nops, cm_parameters, cm_endpoint_params, cm_info2,
                   storeAux, commuteVars, followVars, updVars, pipeVars, unitVars>>

\* the same call after a definition whose name is already defined was appended
ComputeWithDuplicate(duplicate, order) ==
    /\ cm_pc = "computed"
    /\ FindByName(cm_endpoint_params, duplicate.name) # 0
    /\ cm_endpoint_params' = Append(cm_endpoint_params, duplicate)
    /\ cm_info2' = << compute(cm_parameters, Append(cm_endpoint_params, duplicate), order) >>
    /\ cm_pc' = "duplicated"
    /\ UNCHANGED <<db, nops, cm_parameters, cm_info,
                   storeAux, commuteVars, followVars, updVars, pipeVars, unitVars>>

\* the same call made again on the same inputs: a new unique_params HashMap
ComputeAgain(order) ==
    /\ cm_pc = "computed"
    /\ cm_info2' = << compute(cm_parameters, cm_endpoint_params, order) >>
    /\ cm_pc' = "repeated"
    /\ UNCHANGED <<db, nops, cm_parameters, cm_endpoint_params, cm_info,
                   storeAux, commuteVars, followVars, updVars, pipeVars, unitVars>>

NextCompute ==
    \/ \E order \in ComputeOrders(cm_endpoint_params) : ComputeFirst(order)
    \/ \E order \in ComputeOrders(cm_endpoint_params) : ComputeAgain(order)
    \/ \E duplicate \in EndpointDefinitions({ <<"d1">>, <<"d2">> }) :
          \E order \in ComputeOrders(Append(cm_endpoint_params, duplicate)) :
             ComputeWithDuplicate(duplicate, order)

SpecCompute == InitCompute /\ [][NextCompute]_vars

\* the relations C19 states between the fields of one MatchingInfo
MatchingInfoConsistent(mi) ==
    /\ mi.mapped_required_fields <= mi.total_required_fields
    /\ mi.mapped_optional_fields <= mi.total_optional_fields
    /\ mi.total_required_fields =
          mi.mapped_required_fields + Len(mi.missing_required_fields)
    /\ mi.completion_percentage =
          IF mi.total_required_fields = 0 THEN 100
          ELSE (100 * mi.mapped_required_fields) \div mi.total_required_fields
    /\ mi.completion_percentage \in 0..100
    /\ mi.status = "Complete" <=>
          \/ mi.total_required_fields = 0
          \/ mi.mapped_required_fields = mi.total_required_fields
    /\ mi.status = "Partial" <=>
          /\ 0 < mi.mapped_required_fields
          /\ mi.mapped_required_fields < mi.total_required_fields
    /\ mi.status = "Incomplete" <=>
          /\ mi.total_required_fields > 0
          /\ mi.mapped_required_fields = 0
    /\ mi.status \in {"Complete", "Partial", "Incomplete"}

\* the names whose first definition in endpoint_params is required
FirstRequiredNames(endpoint_params) ==
    { endpoint_params[i].name :
        i \in { j \in 1..Len(endpoint_params) :
                  /\ \A k \in 1..(j - 1) : endpoint_params[k].name # endpoint_params[j].name
                  /\ endpoint_params[j].required = <<TRUE>> } }

\* C19: every MatchingInfo that compute returns has mapped <= total for required
\* and optional fields, total_required = mapped_required + the number of missing
\* required fields, percentage 100 when nothing is required and else
\* 100 * mapped_required / total_required (integer part), and the status that the
\* two required counts determine; total_required counts the required names of E.
C19_ComputeInvariants ==
    /\ cm_info # <<>> =>
          /\ MatchingInfoConsistent(cm_info[1])
          /\ cm_pc = "computed" =>
                cm_info[1].total_required_fields =
                    Cardinality(FirstRequiredNames(cm_endpoint_params))
    /\ cm_info2 # <<>> => MatchingInfoConsistent(cm_info2[1])

\* a computation with two required fields of which one is mapped and one blank
C19_Witness ==
    /\ cm_info # <<>>
    /\ cm_info[1].status = "Partial"
    /\ cm_info[1].completion_percentage = 50
    /\ \E i \in 1..Len(cm_parameters) : cm_parameters[i].value = <<" ">>

\* the entries of a missing-field list, as a set
FieldSet(fields) == { fields[i] : i \in 1..Len(fields) }

\* C20: appending to E a definition whose name E already defines (any required
\* flag, any description) changes no count, not the percentage, not the status
\* and not the sets of missing fields (names and descriptions of the first
\* definitions) of compute(M, E).
C20_DuplicateDefinitionInvariant ==
    cm_pc = "duplicated" =>
        /\ cm_info2[1].total_required_fields = cm_info[1].total_required_fields
        /\ cm_info2[1].mapped_required_fields = cm_info[1].mapped_required_fields
        /\ cm_info2[1].total_optional_fields = cm_info[1].total_optional_fields
        /\ cm_info2[1].mapped_optional_fields = cm_info[1].mapped_optional_fields
        /\ cm_info2[1].completion_percentage = cm_info[1].completion_percentage
        /\ cm_info2[1].status = cm_info[1].status
        /\ FieldSet(cm_info2[1].missing_required_fields)
              = FieldSet(cm_info[1].missing_required_fields)
        /\ FieldSet(cm_info2[1].missing_optional_fields)
              = FieldSet(cm_info[1].missing_optional_fields)

\* the duplicate appended differs from the first definition of its name in its
\* required flag and its description, and that name is a missing required field
C20_Witness ==
    /\ cm_pc = "duplicated"
    /\ LET duplicate == cm_endpoint_params[Len(cm_endpoint_params)]
           first == cm_endpoint_params[FindByName(cm_endpoint_params, duplicate.name)]
       IN  /\ first.required = <<TRUE>>
           /\ duplicate.required = <<FALSE>>
           /\ duplicate.description # first.description
           /\ \E i \in 1..Len(cm_info[1].missing_required_fields) :
                 cm_info[1].missing_required_fields[i].name = duplicate.name

(***************************************************************************)
(* Field matching: src/workflow/actions/match_fields.rs                    *)
(***************************************************************************)
\* bound on the number of fields of the JSON object extracted from a sentence
MaxFields == 2

\* the serde_json values of the model: a string, a blank string, a number
JsonValues == { <<"string", "v1">>, <<"string", " ">>, <<"number", "7">> }

\* extract_string_value: the string when it is not blank, None for null, and the
\* printed form of any other value unless it is blank or "null"
extract_string_value(value) ==
    CASE value[1] = "string" /\ Trim(value[2]) # "" -> << value[2] >>
      [] value[1] = "null" -> <<>>
      [] value[1] = "string" -> <<>>
      [] OTHER -> IF Trim(value[2]) = "" \/ value[2] = "null" THEN <<>> ELSE << value[2] >>

\* extract_fields_from_json on the value sentence_to_json returns (an object
\* with a non-empty "endpoints" array): the "fields" object of the first
\* endpoint, the empty map when it has none
extract_fields_from_json(input_json) ==
    IF input_json.first_fields # <<>> THEN input_json.first_fields[1] ELSE <<>>

\* the matched_value try_direct_matching finds for one parameter: the value
\* under its own name, else the value under the first alternative that is a key
direct_value(param, extracted_fields) ==
    LET own == IF param.name \in DOMAIN extracted_fields
               THEN extract_string_value(extracted_fields[param.name])
               ELSE <<>>
        alternatives == IF param.alternatives = <<>> THEN <<>> ELSE param.alternatives[1]
        present == SelectSeq(alternatives, LAMBDA alt : alt \in DOMAIN extracted_fields)
    IN  IF own # <<>> THEN own
        ELSE IF present # <<>> THEN extract_string_value(extracted_fields[Head(present)])
        ELSE <<>>

\* try_direct_matching
try_direct_matching(endpoint_params, extracted_fields) ==
    [i \in 1..Len(endpoint_params) |->
        [ name |-> endpoint_params[i].name,
          description |-> endpoint_params[i].description,
          value |-> direct_value(endpoint_params[i], extracted_fields) ]]

\* value.as_ref().map(|v| !v.trim().is_empty()).unwrap_or(false)
non_blank(value) == value # <<>> /\ Trim(value[1]) # ""

\* count_unmatched_required_params
count_unmatched_required_params(endpoint_params, matches) ==
    Len(SelectSeq(endpoint_params, LAMBDA param :
        /\ param.required = <<TRUE>>
        /\ ~\E i \in 1..Len(matches) :
              matches[i].name = param.name /\ non_blank(matches[i].value)))

\* try_semantic_matching after the provider answered semantic_json: "Combine
\* direct matches with semantic matches"
try_semantic_matching(endpoint_params, direct_matches, semantic_json) ==
    [i \in 1..Len(endpoint_params) |->
        LET param == endpoint_params[i]
            direct == FindByName(direct_matches, param.name)
            direct_kept == direct # 0 /\ non_blank(direct_matches[direct].value)
        IN  [ name |-> param.name, description |-> param.description,
              value |-> IF direct_kept THEN direct_matches[direct].value
                        ELSE IF param.name \in DOMAIN semantic_json
                        THEN extract_string_value(semantic_json[param.name])
                        ELSE <<>> ]]

\* create_empty_matches
create_empty_matches(endpoint_params) ==
    [i \in 1..Len(endpoint_params) |->
        [ name |-> endpoint_params[i].name,
          description |-> endpoint_params[i].description, value |-> <<>> ]]

\* variant that asks the provider whenever fields were extracted
match_fields_semantic_always_asks(input_json, endpoint, response) ==
    LET extracted_fields == extract_fields_from_json(input_json)
        direct_matches == try_direct_matching(endpoint.parameters, extracted_fields)
    IN  IF DOMAIN extracted_fields = {}
        THEN [ provider_called |-> FALSE, error |-> <<>>,
               matches |-> create_empty_matches(endpoint.parameters) ]
        ELSE IF response[1] = "json"
        THEN [ provider_called |-> TRUE, error |-> <<>>,
               matches |-> try_semantic_matching(endpoint.parameters,
                                                 direct_matches, response[2]) ]
        ELSE [ provider_called |-> TRUE, error |-> << <<response[1]>> >>, matches |-> <<>> ]

\* match_fields_semantic; response is what provider.generate and sanitize_json
\* give when they are reached: an error, or the JSON object of the answer
match_fields_semantic(input_json, endpoint, response) ==
    LET extracted_fields == extract_fields_from_json(input_json)
        direct_matches == try_direct_matching(endpoint.parameters, extracted_fields)
    IN  IF DOMAIN extracted_fields = {}
        THEN [ provider_called |-> FALSE, error |-> <<>>,
               matches |-> create_empty_matches(endpoint.parameters) ]
        ELSE IF count_unmatched_required_params(endpoint.parameters, direct_matches) = 0
        THEN [ provider_called |-> FALSE, error |-> <<>>, matches |-> direct_matches ]
        ELSE IF response[1] = "json"
        THEN [ provider_called |-> TRUE, error |-> <<>>,
               matches |-> try_semantic_matching(endpoint.parameters,
                                                 direct_matches, response[2]) ]
        ELSE [ provider_called |-> TRUE, error |-> << <<response[1]>> >>, matches |-> <<>> ]

(***************************************************************************)
(* One actionable run: src/analysis/retry_logic.rs (try_actionable_analysis),*)
(* src/workflow/steps/*.rs, src/workflow/actions/find_closest_endpoint.rs   *)
(***************************************************************************)
\* the list the remote endpoint service returns in the runs of SpecWorkflow:
\* the catalog and an endpoint whose path repeats an undeclared placeholder and
\* names a declared one
RemoteEndpoints ==
    Catalog \o
    << [ id |-> "create_event", name |-> "Create Event",
         path |-> << <<"lit", "/calendars/">>, <<"var", "calendar_id">>,
                     <<"lit", "/events/">>, <<"var", "date">>,
                     <<"lit", "/">>, <<"var", "calendar_id">> >>,
         parameters |-> << EndpointParameter("title", <<"Event title">>, TRUE, <<>>),
                           EndpointParameter("date", <<"Day of the event">>, TRUE,
                                             <<"when", "day">>) >> ] >>

\* variant of the step list with json_generation before endpoint_matching
ENHANCED_WORKFLOW_CONFIG_JSON_FIRST ==
    << [ name |-> "enhanced_configuration_loading", enabled |-> TRUE, max_attempts |-> 3 ],
       [ name |-> "json_generation", enabled |-> TRUE, max_attempts |-> 3 ],
       [ name |-> "endpoint_matching", enabled |-> TRUE, max_attempts |-> 2 ],
       [ name |-> "path_parameter_extraction", enabled |-> TRUE, max_attempts |-> 1 ],
       [ name |-> "field_matching", enabled |-> TRUE, max_attempts |-> 2 ] >>

\* ENHANCED_WORKFLOW_CONFIG: the steps in declared order with their retry counts
ENHANCED_WORKFLOW_CONFIG ==
    << [ name |-> "enhanced_configuration_loading", enabled |-> TRUE, max_attempts |-> 3 ],
       [ name |-> "endpoint_matching", enabled |-> TRUE, max_attempts |-> 2 ],
       [ name |-> "path_parameter_extraction", enabled |-> TRUE, max_attempts |-> 1 ],
       [ name |-> "json_generation", enabled |-> TRUE, max_attempts |-> 3 ],
       [ name |-> "field_matching", enabled |-> TRUE, max_attempts |-> 2 ] >>

\* WorkflowContext::new: nothing loaded, no parameters
NewContext ==
    [ endpoints_config |-> <<>>, enhanced_endpoints |-> <<>>, endpoint_id |-> <<>>,
      matched_endpoint |-> <<>>, parameters |-> <<>>, json_output |-> <<>> ]

\* a.to_lowercase().contains(&b.to_lowercase()) on the ids of the model
IdContains(a, b) == a = b \/ (a = "send_email" /\ b = "email")

\* what the provider may answer to the find_endpoint prompt, trimmed
EndpointAnswers == { "send_email", "get_user", "create_event", "email", "NO_MATCH", "other" }

\* find_closest_endpoint_pure_llm after the provider answered endpoint_id
find_closest_endpoint_pure_llm(enhanced_endpoints, endpoint_id) ==
    LET partial == SelectSeq(enhanced_endpoints, LAMBDA e :
                       IdContains(e.id, endpoint_id) \/ IdContains(endpoint_id, e.id))
    IN  IF enhanced_endpoints = <<>>
        THEN [ error |-> << <<"No endpoints available for matching">> >>, endpoint |-> <<>> ]
        ELSE IF endpoint_id = "NO_MATCH"
        THEN [ error |-> << <<"No suitable endpoint found", " for the given input">> >>,
               endpoint |-> <<>> ]
        ELSE IF FindEndpoint(enhanced_endpoints, endpoint_id) # 0
        THEN [ error |-> <<>>,
               endpoint |-> << enhanced_endpoints[FindEndpoint(enhanced_endpoints, endpoint_id)] >> ]
        ELSE IF partial # <<>>
        THEN [ error |-> <<>>, endpoint |-> << Head(partial) >> ]
        ELSE [ error |-> << <<"Endpoint ID '", "id", "' ",
                              "not found in available endpoints">> >>,
               endpoint |-> <<>> ]

\* the Endpoint an EnhancedEndpoint converts to
RegularEndpoint(e) == [ id |-> e.id, parameters |-> e.parameters ]

\* find_closest_endpoint: the config converted, matched and converted back
find_closest_endpoint(config, endpoint_id) ==
    LET found == find_closest_endpoint_pure_llm(
                     [i \in 1..Len(config) |->
                         [ id |-> config[i].id, name |-> "", path |-> <<>>,
                           parameters |-> config[i].parameters ]],
                     endpoint_id)
    IN  IF found.error # <<>> THEN found
        ELSE [ error |-> <<>>, endpoint |-> << RegularEndpoint(found.endpoint[1]) >> ]

\* the keys and the objects sentence_to_json may extract: at most MaxFields fields
FieldKeys == { "to", "name", "id", "title", "when", "day" }

FieldMaps(keys, values, n) ==
    UNION { [K -> values] : K \in { S \in SUBSET keys : Cardinality(S) <= n } }

\* the values sentence_to_json may return: the first endpoint of the answer with
\* a "fields" object or without one
JsonOutputs ==
    { [ first_fields |-> <<>> ] } \cup
    { [ first_fields |-> << f >> ] : f \in FieldMaps(FieldKeys, JsonValues, MaxFields) }

\* what the semantic pass may get from the provider for an endpoint: an error, an
\* answer that is not JSON, or an object with at most one of the names of the prompt
SemanticResponses(endpoint) ==
    { <<"provider error">>, <<"invalid JSON">> } \cup
    { <<"json", f>> :
        f \in FieldMaps({ endpoint.parameters[i].name : i \in 1..Len(endpoint.parameters) },
                        { <<"string", "s1">>, <<"null">> }, 1) }

notWf ==
    <<db, nops, storeAux, commuteVars, followVars, updVars, pipeVars, computeVars,
      classifyVars, pathVars, helpVars, lateVars>>

InitWorkflow ==
    /\ db = EmptyTable(StoreKeys)
    /\ nops = 0
    /\ context = NewContext
    /\ wf_step = 1
    /\ wf_attempt = 1
    /\ wf_pc = "execute"
    /\ wf_last = ""
    /\ wf_error = <<>>
    /\ wf_semantic = <<>>
    /\ wf_result = <<>>
    /\ IdleStoreAux /\ IdleCommute /\ IdleFollow /\ IdleUpd /\ IdlePipe /\ IdleCompute
    /\ IdleClassify /\ IdlePath /\ IdleHelp
    /\ IdleLate

\* WorkflowEngine::execute: the engine is at the step named name
AtStep(name) ==
    /\ wf_pc = "execute"
    /\ wf_step <= Len(ENHANCED_WORKFLOW_CONFIG)
    /\ ENHANCED_WORKFLOW_CONFIG[wf_step].name = name

\* WorkflowEngine::execute: the next enabled step after step i
NextEnabledStep(i) ==
    LET later == { j \in (i + 1)..Len(ENHANCED_WORKFLOW_CONFIG) :
                      ENHANCED_WORKFLOW_CONFIG[j].enabled }
    IN  IF later = {} THEN Len(ENHANCED_WORKFLOW_CONFIG) + 1
        ELSE CHOOSE j \in later : \A k \in later : j <= k

\* WorkflowEngine::execute: the step returned Ok, the engine goes on to the next
StepSucceeded(name, ctx) ==
    /\ context' = ctx
    /\ wf_last' = name
    /\ wf_error' = <<>>
    /\ wf_attempt' = 1
    /\ wf_step' = NextEnabledStep(wf_step)
    /\ UNCHANGED <<wf_pc, wf_result>>

\* WorkflowEngine::execute: the step returned Err; it is tried again while
\* attempts are left, else execute returns this error and
\* try_actionable_analysis returns it (engine.execute(..).await?)
StepFailed(name, message) ==
    /\ wf_last' = name
    /\ wf_error' = << message >>
    /\ IF wf_attempt < ENHANCED_WORKFLOW_CONFIG[wf_step].max_attempts
       THEN /\ wf_attempt' = wf_attempt + 1
            /\ UNCHANGED <<wf_pc, wf_result>>
       ELSE /\ wf_pc' = "returned"
            /\ wf_result' = << [ error |-> << message >>, value |-> <<>> ] >>
            /\ UNCHANGED wf_attempt
    /\ UNCHANGED <<context, wf_step>>

\* what EnhancedConfigurationLoadingStep may fail with
ConfigLoadingErrors ==
    { <<"Remote endpoint service is unavailable">>,
      <<"Failed to fetch enhanced endpoints: ",
        "No endpoints available for user", " '", "email", "'">> }

\* EnhancedConfigurationLoadingStep::execute
EnhancedConfigurationLoading(error) ==
    /\ AtStep("enhanced_configuration_loading")
    /\ IF error = <<>>
       THEN StepSucceeded("enhanced_configuration_loading",
                [context EXCEPT
                    !.endpoints_config =
                        << [i \in 1..Len(RemoteEndpoints) |-> RegularEndpoint(RemoteEndpoints[i])] >>,
                    !.enhanced_endpoints = << RemoteEndpoints >>])
       ELSE StepFailed("enhanced_configuration_loading", error[1])
    /\ UNCHANGED wf_semantic
    /\ UNCHANGED notWf

\* EndpointMatchingStep::execute; answer is None when provider.generate failed
EndpointMatching(answer) ==
    /\ AtStep("endpoint_matching")
    /\ IF context.endpoints_config = <<>>
       THEN StepFailed("endpoint_matching", <<"Endpoints config not loaded">>)
       ELSE IF answer = <<>>
       THEN StepFailed("endpoint_matching", <<"provider error">>)
       ELSE LET endpoint_result == find_closest_endpoint(context.endpoints_config[1], answer[1])
            IN  IF endpoint_result.error # <<>>
                THEN StepFailed("endpoint_matching", endpoint_result.error[1])
                ELSE StepSucceeded("endpoint_matching",
                         [context EXCEPT
                             !.endpoint_id = << endpoint_result.endpoint[1].id >>,
                             !.matched_endpoint = endpoint_result.endpoint])
    /\ UNCHANGED wf_semantic
    /\ UNCHANGED notWf

\* the EnhancedEndpoint the context's endpoint_id names, None when there is none
SelectedEndpoint ==
    IF context.endpoint_id = <<>> \/ context.enhanced_endpoints = <<>> THEN <<>>
    ELSE IF FindEndpoint(context.enhanced_endpoints[1], context.endpoint_id[1]) = 0 THEN <<>>
    ELSE << context.enhanced_endpoints[1][
                FindEndpoint(context.enhanced_endpoints[1], context.endpoint_id[1])] >>

\* PathParameterExtractionStep::execute, the HashMap of path parameters
\* iterated in path_order
PathParameterExtraction(path_order) ==
    /\ AtStep("path_parameter_extraction")
    /\ IF context.endpoint_id = <<>>
       THEN StepFailed("path_parameter_extraction", <<"Endpoint ID not available">>)
       ELSE IF context.enhanced_endpoints = <<>>
       THEN StepFailed("path_parameter_extraction", <<"Enhanced endpoints not available">>)
       ELSE IF SelectedEndpoint = <<>>
       THEN StepFailed("path_parameter_extraction", <<"Enhanced endpoint not found">>)
       ELSE StepSucceeded("path_parameter_extraction",
                [context EXCEPT !.parameters =
                    PathParameterExtractionStep(SelectedEndpoint[1], path_order)])
    /\ UNCHANGED wf_semantic
    /\ UNCHANGED notWf

\* what sentence_to_json may fail with
JsonGenerationErrors ==
    { <<"provider error">>, <<"Invalid JSON structure: missing 'endpoints' array">> }

\* JsonGenerationStep::execute
JsonGeneration(error, json_result) ==
    /\ AtStep("json_generation")
    /\ IF error # <<>>
       THEN StepFailed("json_generation", error[1])
       ELSE StepSucceeded("json_generation", [context EXCEPT !.json_output = << json_result >>])
    /\ UNCHANGED wf_semantic
    /\ UNCHANGED notWf

\* FieldMatchingStep::execute
FieldMatching(response) ==
    /\ AtStep("field_matching")
    /\ IF context.json_output = <<>>
       THEN /\ StepFailed("field_matching", <<"JSON output not available">>)
            /\ UNCHANGED wf_semantic
       ELSE IF context.matched_endpoint = <<>>
       THEN /\ StepFailed("field_matching", <<"Matched endpoint not available">>)
            /\ UNCHANGED wf_semantic
       ELSE LET semantic_results ==
                    match_fields_semantic(context.json_output[1],
                                          context.matched_endpoint[1], response)
            IN  /\ wf_semantic' =
                       << [ provider_called |-> semantic_results.provider_called,
                            semantic_json |->
                                IF semantic_results.provider_called /\ response[1] = "json"
                                THEN << response[2] >> ELSE <<>> ] >>
                /\ IF semantic_results.error # <<>>
                   THEN StepFailed("field_matching", semantic_results.error[1])
                   ELSE StepSucceeded("field_matching",
                            [context EXCEPT !.parameters =
                                FieldMatchingStep(context.parameters, semantic_results.matches)])
    /\ UNCHANGED notWf

\* try_actionable_analysis after engine.execute returned Ok(context)
BuildResult(compute_order) ==
    /\ wf_pc = "execute"
    /\ wf_step > Len(ENHANCED_WORKFLOW_CONFIG)
    /\ wf_pc' = "returned"
    /\ wf_result' =
          IF SelectedEndpoint = <<>>
          THEN << [ error |-> << <<"Enhanced endpoint data not found">> >>, value |-> <<>> ] >>
          ELSE << [ error |-> <<>>,
                    value |-> << try_actionable_analysis(SelectedEndpoint[1],
                                     context.parameters, compute_order) >> ] >>
    /\ UNCHANGED <<context, wf_step, wf_attempt, wf_last, wf_error, wf_semantic>>
    /\ UNCHANGED notWf

NextWorkflow ==
    \/ \E error \in { <<>> } \cup { <<e>> : e \in ConfigLoadingErrors } :
          EnhancedConfigurationLoading(error)
    \/ \E answer \in { <<>> } \cup { <<a>> : a \in EndpointAnswers } :
          EndpointMatching(answer)
    \/ \E path_order \in (IF SelectedEndpoint = <<>> THEN { <<>> }
                          ELSE PathParamOrders(SelectedEndpoint[1].path)) :
          PathParameterExtraction(path_order)
    \/ \E error \in { <<e>> : e \in JsonGenerationErrors } :
          JsonGeneration(error, <<>>)
    \/ \E json_result \in JsonOutputs : JsonGeneration(<<>>, json_result)
    \/ \E response \in (IF context.matched_endpoint = <<>> THEN { <<"provider error">> }
                        ELSE SemanticResponses(context.matched_endpoint[1])) :
          FieldMatching(response)
    \/ \E compute_order \in ComputeOrders(context.parameters) : BuildResult(compute_order)

SpecWorkflow == InitWorkflow /\ [][NextWorkflow]_vars

\* the Ok value try_actionable_analysis returned, None while there is none
WorkflowValue == IF wf_result = <<>> THEN <<>> ELSE wf_result[1].value

\* number of pieces of a text equal to piece
CountPiece(text, piece) == Cardinality({ i \in 1..Len(text) : text[i] = piece })

\* the three wordings of C21 for a prompt over the missing fields
PromptWordingOk(prompt, missing) ==
    LET n == Len(missing)
        last_field == format_field_request(missing[n].name, missing[n].description)
        first_field == format_field_request(missing[1].name, missing[1].description)
        m == Len(prompt)
    IN  CASE n = 1 ->
               /\ prompt[1] = "To proceed with "
               /\ prompt[3] = ", I need one more piece of information: "
               /\ SubSeq(prompt, 4, m - 1) = first_field
               /\ prompt[m] = ". Could you please provide that?"
          [] n = 2 ->
               /\ prompt[1] = "To complete your "
               /\ prompt[3] = " request, I need "
               /\ SubSeq(prompt, 4, 3 + Len(first_field)) = first_field
               /\ prompt[4 + Len(first_field)] = " and "
               /\ SubSeq(prompt, 5 + Len(first_field), m - 1) = last_field
               /\ prompt[m] = ". Could you provide these details?"
          [] OTHER ->
               /\ prompt[1] = "To process your "
               /\ prompt[3] = " request, I need a few more details: "
               /\ SubSeq(prompt, 4, 3 + Len(first_field)) = first_field
               /\ CountPiece(prompt, ", ") = n - 2
               /\ CountPiece(prompt, ", and ") = 1
               /\ prompt[m - Len(last_field) - 1] = ", and "
               /\ SubSeq(prompt, m - Len(last_field), m - 1) = last_field
               /\ prompt[m] = ". Could you provide this information?"

\* C21: the result of an actionable run has a user_prompt exactly when
\* matching_info.missing_required_fields is not empty, and the prompt uses the
\* one-field wording for 1 missing field, the two-field wording for 2 and the
\* list wording (comma-separated, ", and" before the last) for 3 or more.
C21_UserPromptByMissingCount ==
    WorkflowValue # <<>> =>
        LET result == WorkflowValue[1]
            missing == result.matching_info.missing_required_fields
        IN  /\ (result.user_prompt # <<>>) <=> (missing # <<>>)
            /\ missing # <<>> => PromptWordingOk(result.user_prompt[1], missing)

C21_Witness ==
    /\ WorkflowValue # <<>>
    /\ Len(WorkflowValue[1].matching_info.missing_required_fields) = 3
    /\ WorkflowValue[1].user_prompt # <<>>
    /\ WorkflowValue[1].user_prompt[1][1] = "To process your "

(***************************************************************************)
(* classify_intent on bounded texts:                                       *)
(* src/workflow/actions/classify_intent.rs                                 *)
(***************************************************************************)
notClassify ==
    <<db, nops, storeAux, commuteVars, followVars, updVars, pipeVars, computeVars,
      wfVars, pathVars, helpVars, lateVars>>

InitClassify ==
    /\ db = EmptyTable(StoreKeys)
    /\ nops = 0
    /\ ci_sentence \in { <<s>> : s \in SeqsUpTo(SentenceWords, MaxWords) }
    /\ ci_response = <<>>
    /\ ci_intent = <<>>
    /\ IdleStoreAux /\ IdleCommute /\ IdleFollow /\ IdleUpd /\ IdlePipe /\ IdleCompute
    /\ IdleWorkflow /\ IdlePath /\ IdleHelp
    /\ IdleLate

\* classify_intent when provider.generate answers response
ClassifyIntent(response) ==
    /\ ci_intent = <<>>
    /\ ci_response = <<>>
    /\ ci_response' = << response >>
    /\ ci_intent' = << classify_intent(ci_sentence[1], response) >>
    /\ UNCHANGED ci_sentence
    /\ UNCHANGED notClassify

\* classify_intent when provider.generate fails: the error is returned
ClassifyIntentFails ==
    /\ ci_intent = <<>>
    /\ ci_response = <<>>
    /\ ci_response' = << <<"provider error">> >>
    /\ ci_intent' = << "Err" >>
    /\ UNCHANGED ci_sentence
    /\ UNCHANGED notClassify

NextClassify ==
    \/ \E response \in SeqsUpTo(ResponseWords, MaxWords) : ClassifyIntent(response)
    \/ ClassifyIntentFails

SpecClassify == InitClassify /\ [][NextClassify]_vars

\* whether a text mentions a token in any letter case
MentionsIgnoringCase(text, token) ==
    \E i \in 1..Len(text) : occurs(to_lowercase(text[i]), to_lowercase(token))

\* C22: the intent classify_intent returns for a provider response follows the
\* precedence ACTIONABLE, HELP, GENERAL over case-insensitive substring tests of
\* the response, and only when none occurs the help keywords of the lower-cased
\* sentence decide between Help and General.
C22_ClassifyPrecedence ==
    (ci_intent # <<>> /\ ci_intent # << "Err" >>) =>
        LET response == ci_response[1]
            sentence == ci_sentence[1]
        IN  ci_intent[1] =
               CASE MentionsIgnoringCase(response, "ACTIONABLE") -> "ActionableRequest"
                 [] ~MentionsIgnoringCase(response, "ACTIONABLE")
                    /\ MentionsIgnoringCase(response, "HELP") -> "HelpRequest"
                 [] ~MentionsIgnoringCase(response, "ACTIONABLE")
                    /\ ~MentionsIgnoringCase(response, "HELP")
                    /\ MentionsIgnoringCase(response, "GENERAL") -> "GeneralQuestion"
                 [] OTHER ->
                    IF \E keyword \in help_keywords : MentionsIgnoringCase(sentence, keyword)
                    THEN "HelpRequest" ELSE "GeneralQuestion"

C22_Witness ==
    /\ ci_intent = << "ActionableRequest" >>
    /\ ci_response = << <<"help", "Actionable">> >>

(***************************************************************************)
(* extract_essential_path on bounded paths: src/endpoint_client.rs         *)
(***************************************************************************)
\* bound on the number of characters of a path
MaxPathLen == 5

\* the characters paths of the model are made of; a path is the sequence of
\* its characters
PathChars == { "/", "{", "}", "a" }

\* str::split('/'): the segments between the slashes, one empty segment for the
\* empty string
RECURSIVE Split(_)
Split(path) ==
    IF path = <<>> THEN << <<>> >>
    ELSE IF Head(path) = "/" THEN << <<>> >> \o Split(Tail(path))
    ELSE LET rest == Split(Tail(path))
         IN  << << Head(path) >> \o Head(rest) >> \o Tail(rest)

\* !segment.starts_with('{') || !segment.ends_with('}')
KeptSegment(segment) ==
    \/ segment = <<>>
    \/ segment[1] # "{"
    \/ segment[Len(segment)] # "}"

\* index of the first segment the filter drops, 0 when it drops none
FirstDropped(segments) ==
    IF \E i \in 1..Len(segments) : ~KeptSegment(segments[i])
    THEN CHOOSE i \in 1..Len(segments) :
            /\ ~KeptSegment(segments[i])
            /\ \A j \in 1..(i - 1) : KeptSegment(segments[j])
    ELSE 0

\* variant that drops only the first placeholder segment
extract_essential_path_first_only(path) ==
    LET segments == Split(path)
        first == FirstDropped(segments)
        essential == Join(IF first = 0 THEN segments
                          ELSE SubSeq(segments, 1, first - 1)
                               \o SubSeq(segments, first + 1, Len(segments)), "/")
    IN  IF essential = <<>> THEN << "/" >> ELSE essential

\* extract_essential_path
extract_essential_path(path) ==
    LET essential == Join(SelectSeq(Split(path), KeptSegment), "/")
    IN  IF essential = <<>> THEN << "/" >> ELSE essential

notPath ==
    <<db, nops, storeAux, commuteVars, followVars, updVars, pipeVars, computeVars,
      wfVars, classifyVars, helpVars, lateVars>>

InitPath ==
    /\ db = EmptyTable(StoreKeys)
    /\ nops = 0
    /\ ep_path \in { <<p>> : p \in SeqsUpTo(PathChars, MaxPathLen) }
    /\ ep_essential = <<>>
    /\ ep_again = <<>>
    /\ IdleStoreAux /\ IdleCommute /\ IdleFollow /\ IdleUpd /\ IdlePipe /\ IdleCompute
    /\ IdleWorkflow /\ IdleClassify /\ IdleHelp
    /\ IdleLate

\* essential_path: extract_essential_path(&re.path)
DeriveEssentialPath ==
    /\ ep_essential = <<>>
    /\ ep_essential' = << extract_essential_path(ep_path[1]) >>
    /\ UNCHANGED <<ep_path, ep_again>>
    /\ UNCHANGED notPath

\* the derivation applied to an essential path
DeriveAgain ==
    /\ ep_essential # <<>>
    /\ ep_again = <<>>
    /\ ep_again' = << extract_essential_path(ep_essential[1]) >>
    /\ UNCHANGED <<ep_path, ep_essential>>
    /\ UNCHANGED notPath

NextPath == DeriveEssentialPath \/ DeriveAgain

SpecPath == InitPath /\ [][NextPath]_vars

\* C23: deriving the essential path of an essential path changes nothing.
C23_EssentialPathIdempotent ==
    ep_again # <<>> => ep_again = ep_essential

C23_Witness ==
    /\ ep_path = << <<"/", "a", "/", "{", "}">> >>
    /\ ep_essential = << <<"/", "a">> >>
    /\ ep_again = << <<"/", "a">> >>

\* the names of a parameter list
ParameterNames(parameters) == { parameters[i].name : i \in 1..Len(parameters) }

\* the names of the {name} placeholders of a path
PlaceholderNames(path) == { path[i][2] : i \in { j \in 1..Len(path) : path[j][1] = "var" } }

\* C24: after path_parameter_extraction succeeded the context's parameters are
\* the selected endpoint's declared parameters, in order and unchanged, followed
\* by exactly one synthetic parameter (required, no value) per distinct
\* placeholder of the path whose name is not declared; no name occurs twice.
C24_PathParametersAppended ==
    (wf_last = "path_parameter_extraction" /\ wf_error = <<>>) =>
        LET declared == SelectedEndpoint[1].parameters
            undeclared == PlaceholderNames(SelectedEndpoint[1].path)
                              \ ParameterNames(declared)
            parameters == context.parameters
            added == (Len(declared) + 1)..Len(parameters)
        IN  /\ Len(parameters) = Len(declared) + Cardinality(undeclared)
            /\ SubSeq(parameters, 1, Len(declared)) = declared
            /\ { parameters[i].name : i \in added } = undeclared
            /\ \A i \in added :
                  /\ parameters[i].required = <<TRUE>>
                  /\ parameters[i].semantic_value = <<>>
                  /\ parameters[i].description = <<"URL path parameter: ", parameters[i].name>>
            /\ \A i, j \in 1..Len(parameters) :
                  parameters[i].name = parameters[j].name => i = j

C24_Witness ==
    /\ wf_last = "path_parameter_extraction"
    /\ wf_error = <<>>
    /\ context.endpoint_id = << "create_event" >>
    /\ Len(context.parameters) = 3
    /\ context.parameters[3].name = "calendar_id"

\* the direct match C25 speaks of: the first non-empty value among the values
\* under the parameter's own name and under its alternatives, None when
\* there is none
NonEmptyDirectValue(param, extracted_fields) ==
    LET alternatives == IF param.alternatives = <<>> THEN <<>> ELSE param.alternatives[1]
        keys == << param.name >> \o alternatives
        found == SelectSeq(keys, LAMBDA k :
                     k \in DOMAIN extracted_fields
                     /\ extract_string_value(extracted_fields[k]) # <<>>)
    IN  IF found = <<>> THEN <<>> ELSE extract_string_value(extracted_fields[Head(found)])

\* C25: after field_matching succeeded, every parameter of the matched endpoint
\* for which the extracted fields hold a non-empty value under its own name or
\* one of its alternatives has that direct value as its final value, whatever
\* the semantic pass returned.
C25_DirectMatchWins ==
    (wf_last = "field_matching" /\ wf_error = <<>>) =>
        LET endpoint_params == context.matched_endpoint[1].parameters
            extracted_fields == extract_fields_from_json(context.json_output[1])
        IN  \A i \in 1..Len(endpoint_params) :
               LET direct == NonEmptyDirectValue(endpoint_params[i], extracted_fields)
                   final == context.parameters[
                                FindByName(context.parameters, endpoint_params[i].name)]
               IN  direct # <<>> => final.semantic_value = direct

\* C26: at every moment the progressive store holds at most one row per
\* conversation_id, whatever analyze calls were made on the conversation.
C26_AtMostOneRowPerConversation ==
    \A k1, k2 \in DOMAIN db :
        (db[k1] # <<>> /\ db[k2] # <<>> /\ k1[1] = k2[1]) => k1 = k2

\* the order of the steps C27 states, and the position of a step name in it
ClaimedStepOrder ==
    << "enhanced_configuration_loading", "endpoint_matching",
       "path_parameter_extraction", "json_generation", "field_matching" >>

StepPosition(name) ==
    IF \E i \in 1..Len(ClaimedStepOrder) : ClaimedStepOrder[i] = name
    THEN CHOOSE i \in 1..Len(ClaimedStepOrder) : ClaimedStepOrder[i] = name
    ELSE 0

\* a transition in which the engine ran an attempt of a step
StepRan ==
    /\ wf_pc = "execute"
    /\ wf_step <= Len(ClaimedStepOrder)
    /\ <<wf_step, wf_attempt, wf_pc>>' # <<wf_step, wf_attempt, wf_pc>>

\* C27: the steps of one actionable run execute in the order
\* enhanced_configuration_loading, endpoint_matching, path_parameter_extraction,
\* json_generation, field_matching; a step starts only after the previous one
\* succeeded, a step is repeated only after it failed, and when a step fails on
\* its last attempt the run returns that error and no later step executes.
C27_StepsInOrder ==
    [][ /\ StepRan =>
            /\ wf_last' = ClaimedStepOrder[wf_step]
            /\ wf_last' # wf_last =>
                  /\ wf_error = <<>>
                  /\ StepPosition(wf_last') = StepPosition(wf_last) + 1
            /\ wf_last' = wf_last => wf_error # <<>>
            /\ wf_pc' = "returned" =>
                  /\ wf_attempt = ENHANCED_WORKFLOW_CONFIG[wf_step].max_attempts
                  /\ wf_error' # <<>>
                  /\ wf_result' = << [ error |-> wf_error', value |-> <<>> ] >>
        /\ wf_pc = "returned" => wf_last' = wf_last /\ context' = context
      ]_vars

C27_Witness ==
    /\ wf_pc = "returned"
    /\ wf_last = "json_generation"
    /\ wf_attempt = 3
    /\ wf_result = << [ error |-> << <<"provider error">> >>, value |-> <<>> ] >>
    /\ context.parameters # <<>>
    /\ context.json_output = <<>>

\* C28: after field_matching succeeded, every synthetic path parameter of the
\* context whose name is a key of the extracted fields with a non-empty value
\* has received that value.
C28_PathParameterReceivesValue ==
    (wf_last = "field_matching" /\ wf_error = <<>>) =>
        LET declared == ParameterNames(context.matched_endpoint[1].parameters)
            extracted_fields == extract_fields_from_json(context.json_output[1])
        IN  \A i \in 1..Len(context.parameters) :
               LET param == context.parameters[i]
               IN  ( /\ param.name \notin declared
                     /\ param.name \in DOMAIN extracted_fields
                     /\ extract_string_value(extracted_fields[param.name]) # <<>> )
                   => param.semantic_value = extract_string_value(extracted_fields[param.name])

MaxListed == 2

\* the endpoints a help request may list: id, name and description
HelpEndpoints ==
    { [ id |-> "send_email", name |-> "Send Email", description |-> "Send an email" ],
      [ id |-> "schedule_meeting", name |-> "Schedule Meeting",
        description |-> "Schedule a meeting" ],
      [ id |-> "get_user", name |-> "Get User", description |-> "Read a user" ] }

\* the match on endpoint.id of create_capabilities_list: the pieces of the format!
\* (the bullet character is written *)
capability(endpoint) ==
    IF endpoint.id = "send_email"
    THEN << "* Send emails (", endpoint.description, ")" >>
    ELSE IF endpoint.id = "schedule_meeting"
    THEN << "* Schedule meetings and appointments (", endpoint.description, ")" >>
    ELSE << "* ", endpoint.name, " (", endpoint.description, ")" >>

\* the capabilities of the model in the order capabilities.sort() gives them
SortedCapabilities ==
    << capability([ id |-> "get_user", name |-> "Get User", description |-> "Read a user" ]),
       capability([ id |-> "schedule_meeting", name |-> "Schedule Meeting",
                    description |-> "Schedule a meeting" ]),
       capability([ id |-> "send_email", name |-> "Send Email",
                    description |-> "Send an email" ]) >>

\* create_capabilities_list: one line per endpoint, sorted, without duplicates;
\* the lines are kept as a sequence in place of the joined text
create_capabilities_list(endpoints) ==
    IF endpoints = <<>>
    THEN << <<"No capabilities currently available.">> >>
    ELSE LET capabilities == { capability(endpoints[i]) : i \in 1..Len(endpoints) }
         IN  SelectSeq(SortedCapabilities, LAMBDA c : c \in capabilities)

\* what the provider may answer to the language detection prompt
LanguageAnswers == { "en", " EN ", "fr", "Es", "english", "" }

\* result.content.trim().to_lowercase()
trim_to_lowercase(content) ==
    CASE content = " EN " -> "en"
      [] content = "Es" -> "es"
      [] OTHER -> content

valid_languages ==
    { "en", "fr", "es", "de", "it", "pt", "nl", "ru", "ja", "zh", "ko", "ar" }

\* detect_language_with_llm after the provider answered content
detect_language_with_llm(content) ==
    LET detected_language == trim_to_lowercase(content)
    IN  IF detected_language \in valid_languages THEN detected_language ELSE "en"

notHelp ==
    <<db, nops, storeAux, commuteVars, followVars, updVars, pipeVars, computeVars,
      wfVars, classifyVars, pathVars, lateVars>>

InitHelp ==
    /\ db = EmptyTable(StoreKeys)
    /\ nops = 0
    /\ hp_endpoints \in SeqsUpTo(HelpEndpoints, MaxListed)
    /\ hp_pc = "detect"
    /\ hp_language = <<>>
    /\ hp_calls = <<>>
    /\ hp_result = <<>>
    /\ IdleStoreAux /\ IdleCommute /\ IdleFollow /\ IdleUpd /\ IdlePipe /\ IdleCompute
    /\ IdleWorkflow /\ IdleClassify /\ IdlePath
    /\ IdleLate

\* handle_help_request up to its first await: the language detection call answers
DetectLanguage(content) ==
    /\ hp_pc = "detect"
    /\ hp_calls' = Append(hp_calls, <<"language_detection">>)
    /\ hp_language' = << detect_language_with_llm(content) >>
    /\ hp_pc' = "generate"
    /\ UNCHANGED <<hp_endpoints, hp_result, notHelp>>

\* the language detection call fails: the ? returns the error
DetectLanguageFails ==
    /\ hp_pc = "detect"
    /\ hp_calls' = Append(hp_calls, <<"language_detection">>)
    /\ hp_result' = << [ error |-> <<"provider error">>, content |-> <<>> ] >>
    /\ hp_pc' = "returned"
    /\ UNCHANGED <<hp_endpoints, hp_language, notHelp>>

\* the rest of handle_help_request: the capabilities list, the help prompt and
\* provider.generate(&full_prompt, model_config), whatever the language is
GenerateHelpResponse(llm_ok) ==
    /\ hp_pc = "generate"
    /\ hp_calls' = Append(hp_calls,
           << "help_response", create_capabilities_list(hp_endpoints), hp_language[1] >>)
    /\ hp_result' =
         IF llm_ok
         THEN << [ error |-> <<>>, content |-> << <<"help text", hp_language[1]>> >> ] >>
         ELSE << [ error |-> <<"provider error">>, content |-> <<>> ] >>
    /\ hp_pc' = "returned"
    /\ UNCHANGED <<hp_endpoints, hp_language, notHelp>>

NextHelp ==
    \/ \E content \in LanguageAnswers : DetectLanguage(content)
    \/ DetectLanguageFails
    \/ \E llm_ok \in BOOLEAN : GenerateHelpResponse(llm_ok)

SpecHelp == InitHelp /\ [][NextHelp]_vars

\* C30: a help request whose detected language is English returns after exactly
\* one provider call, the language detection, with the capabilities listing as
\* its content.
C30_EnglishHelpUsesOneCall ==
    (hp_pc = "returned" /\ hp_language = << "en" >>) =>
        /\ Len(hp_calls) = 1
        /\ hp_result[1].content = << create_capabilities_list(hp_endpoints) >>


(***************************************************************************)
(* Claims on the follow-up branch of the analyze pipeline (Spec).          *)
(***************************************************************************)
\* C31: when the gate found an ongoing match and the follow-up handler ends with
\* no extracted parameter, the call goes on with the normal flow and the stored
\* row of the ongoing match is still there, exactly as it was.
C31_NoParametersFallsThrough ==
    [][ (call.pc = "followup" /\ ~call'.extracted) =>
            /\ call'.pc = "normal"
            /\ db' = db
            /\ db'[<<call.conversation_id, call.ongoing[1]>>] # <<>>
            /\ db'[<<call.conversation_id, call.ongoing[1]>>] = call.ongoing_row ]_vars

C31_Witness ==
    /\ call.pc = "classify"
    /\ call.ongoing # <<>>
    /\ ~call.extracted
    /\ ~call.store_failed
    /\ db[<<call.conversation_id, call.ongoing[1]>>] # <<>>


\* the parameters of the ongoing endpoint, path parameters included, that are required
RequiredOfOngoingEndpoint ==
    LET path_order == CHOOSE o \in PathParamOrders(OngoingEndpoint.path) : TRUE
        all_endpoint_parameters ==
            PathParameterExtractionStep(OngoingEndpoint, path_order)
    IN  { i \in 1..Len(all_endpoint_parameters) :
            all_endpoint_parameters[i].required = <<TRUE>> }

\* C32: the matching_info of a partial-progressive result counts only required
\* parameters in total_required, has total_required = mapped_required + the
\* number of missing required fields, and has status Partial only when
\* 0 < mapped_required < total_required.
C32_PartialProgressiveInfo ==
    (call.result # <<>> /\ call.result[1].raw_type = "progressive_partial") =>
        LET info == call.result[1].matching_info
        IN  /\ info.total_required_fields = Cardinality(RequiredOfOngoingEndpoint)
            /\ info.total_required_fields =
                  info.mapped_required_fields + Len(info.missing_required_fields)
            /\ info.status = "Partial" =>
                  /\ 0 < info.mapped_required_fields
                  /\ info.mapped_required_fields < info.total_required_fields


(***************************************************************************)
(* Further claims on the store (SpecStore).                                *)
(***************************************************************************)
\* C33: no row of the store holds two parameters with the same name, whatever
\* update calls were made, including calls whose new_parameters repeat a name.
C33_NoDuplicateNamesInRows ==
    \A key \in DOMAIN db :
        LET stored == RowParams(db[key])
        IN  \A i, j \in 1..Len(stored) : stored[i].name = stored[j].name => i = j

\* an update whose new_parameters name "to" twice, on a row that held "to" already
C33_Witness ==
    /\ last.op = "update_match"
    /\ last.pre # <<>>
    /\ Len(last.new_parameters) = 2
    /\ last.new_parameters[1].name = last.new_parameters[2].name
    /\ last.new_parameters[1].value # last.new_parameters[2].value
    /\ last.new_parameters[1].name \in NamesOf(RowParams(last.pre))
    /\ db[<<last.conversation_id, last.endpoint_id>>] # <<>>


\* C35: when the follow-up branch ended in an error and the call is about to
\* run the normal flow, the row of the ongoing match is the row the gate read
\* when the call started.
C35_FailedFollowupLeavesRow ==
    (call.pc = "normal" /\ call.ongoing # <<>>) =>
        db[<<call.conversation_id, call.ongoing[1]>>] = call.ongoing_row


(***************************************************************************)
(* SpecRace: two follow-up turns of one conversation run concurrently on   *)
(* the ongoing match TheKey: src/analysis/analyze_sentence_enhanced.rs,    *)
(* src/analysis/progressive_handler.rs, src/progressive_matching.rs.       *)
(* Every store query is a step of its own.                                 *)
(***************************************************************************)
\* the parameters a turn may extract, and the ones an earlier turn stored
RacePool ==
    { [name |-> "to",        value |-> "v1", description |-> "d1"],
      [name |-> "subject",   value |-> "v1", description |-> "d1"],
      [name |-> "recipient", value |-> "v2", description |-> "d2"] }

\* the endpoint of the ongoing match
RaceEndpoint == Catalog[FindEndpoint(Catalog, TheKey[2])]

notRace ==
    <<storeAux, commuteVars, followVars, updVars, pipeVars, computeVars,
      wfVars, classifyVars, pathVars, helpVars, convVars>>

InitRace ==
    /\ \E stored \in SeqsUpTo(RacePool, 1) :
          db = [EmptyTable(StoreKeys) EXCEPT ![TheKey] =
                   << [ parameters |-> ToJson(stored), created_at |-> 0,
                        updated_at |-> 0 ] >>]
    /\ nops = 0
    /\ rc_pc = [p \in Callers |-> "gate"]
    /\ rc_new = [p \in Callers |-> <<>>]
    /\ rc_read = [p \in Callers |-> <<>>]
    /\ rc_result = [p \in Callers |-> "none"]
    /\ IdleStoreAux /\ IdleCommute /\ IdleFollow /\ IdleUpd /\ IdlePipe /\ IdleCompute
    /\ IdleWorkflow /\ IdleClassify /\ IdlePath /\ IdleHelp /\ IdleConv

\* analyze_sentence_enhanced: get_incomplete_match(conv_id); without a row the
\* turn runs the normal flow
RaceGate(p) ==
    /\ rc_pc[p] = "gate"
    /\ \E found \in get_incomplete_match(db, TheKey[1]) :
          IF found = <<>>
          THEN /\ rc_pc' = [rc_pc EXCEPT ![p] = "returned"]
               /\ rc_result' = [rc_result EXCEPT ![p] = "normal"]
          ELSE /\ rc_pc' = [rc_pc EXCEPT ![p] = "extract"]
               /\ UNCHANGED rc_result
    /\ UNCHANGED <<db, nops, rc_new, rc_read, notRace>>

\* handle_progressive_followup: extract_parameters_from_followup found
\* new_parameters; update_match starts and runs SELECT parameters
RaceSelect(p, new_parameters) ==
    /\ rc_pc[p] = "extract"
    /\ new_parameters # <<>>
    /\ rc_new' = [rc_new EXCEPT ![p] = new_parameters]
    /\ rc_read' = [rc_read EXCEPT ![p] = SelectParameters(db, TheKey[1], TheKey[2])]
    /\ rc_pc' = [rc_pc EXCEPT ![p] = "upsert"]
    /\ UNCHANGED <<db, nops, rc_result, notRace>>

\* update_match: SELECT created_at and INSERT .. ON CONFLICT DO UPDATE
RaceUpsert(p) ==
    /\ rc_pc[p] = "upsert"
    /\ LET existing_created == SelectCreatedAt(db, TheKey[1], TheKey[2])
           created_at == IF existing_created = <<>> THEN nops + 1 ELSE existing_created[1]
       IN  db' = Upsert(db, TheKey[1], TheKey[2], MergedJson(rc_read[p], rc_new[p]),
                        created_at, nops + 1)
    /\ nops' = nops + 1
    /\ rc_read' = [rc_read EXCEPT ![p] = <<>>]
    /\ rc_pc' = [rc_pc EXCEPT ![p] = "check"]
    /\ UNCHANGED <<rc_new, rc_result, notRace>>

\* check_completion and the branch on is_complete; a partial result is returned
RaceCheck(p) ==
    /\ rc_pc[p] = "check"
    /\ LET completion_result ==
               check_completion(db, TheKey[1], TheKey[2],
                                RequiredParamNames(RaceEndpoint.parameters),
                                RaceEndpoint.parameters)
       IN  IF completion_result.is_complete
           THEN /\ rc_pc' = [rc_pc EXCEPT ![p] = "complete"]
                /\ UNCHANGED rc_result
           ELSE /\ rc_pc' = [rc_pc EXCEPT ![p] = "returned"]
                /\ rc_result' = [rc_result EXCEPT ![p] = "progressive_partial"]
    /\ UNCHANGED <<db, nops, rc_new, rc_read, notRace>>

\* complete_match and create_complete_progressive_response
RaceComplete(p) ==
    /\ rc_pc[p] = "complete"
    /\ db' = complete_match(db, TheKey[1], TheKey[2])
    /\ rc_pc' = [rc_pc EXCEPT ![p] = "returned"]
    /\ rc_result' = [rc_result EXCEPT ![p] = "progressive_complete"]
    /\ UNCHANGED <<nops, rc_new, rc_read, notRace>>

NextRace ==
    \/ \E p \in Callers : RaceGate(p)
    \/ \E p \in Callers, n \in SeqsUpTo(RacePool, 1) : RaceSelect(p, n)
    \/ \E p \in Callers : RaceUpsert(p)
    \/ \E p \in Callers : RaceCheck(p)
    \/ \E p \in Callers : RaceComplete(p)

SpecRace == InitRace /\ [][NextRace]_vars

\* C34: of two concurrent follow-up turns on one ongoing match, at most one
\* returns a complete-progressive result.
C34_OnlyOneTurnCompletes ==
    Cardinality({ p \in Callers : rc_result[p] = "progressive_complete" }) <= 1


(***************************************************************************)
(* SpecConv: the ConversationManager called by two tasks at once:          *)
(* src/conversation.rs. Each block that holds a write lock is one step.    *)
(***************************************************************************)
\* number of ConversationManager calls in one run of SpecConv
MaxConvOps == 3

\* the conversation ids a client can pass to add_message: the ids it was given,
\* and one that no start_conversation ever returned (Uuid::new_v4 yields the
\* ids 1, 2, .. here)
UnknownId == MaxConvOps + 1

\* a task that is in no call
NoConvCall == [ op |-> "none", pc |-> "idle", id |-> UnknownId, outcome |-> "none" ]

KnownIds == DOMAIN cv_msgs

\* HashMap::insert
MapInsert(map, key, value) ==
    [k \in DOMAIN map \cup {key} |-> IF k = key THEN value ELSE map[k]]

\* variant of the metadata block that creates the metadata of an unknown id
add_message_metadata_or_insert(metadata_map, conversation_id) ==
    IF conversation_id \in DOMAIN metadata_map
    THEN << [metadata_map EXCEPT ![conversation_id].message_count = @ + 1] >>
    ELSE << MapInsert(metadata_map, conversation_id, [message_count |-> 1]) >>

\* add_message, "Update conversation metadata": the map after the block, or
\* nothing when the block returns Err
add_message_metadata(metadata_map, conversation_id) ==
    IF conversation_id \in DOMAIN metadata_map
    THEN << [metadata_map EXCEPT ![conversation_id].message_count = @ + 1] >>
    ELSE <<>>

notConv ==
    <<db, nops, storeAux, commuteVars, followVars, updVars, pipeVars, computeVars,
      wfVars, classifyVars, pathVars, helpVars, raceVars>>

InitConv ==
    /\ db = EmptyTable(StoreKeys)
    /\ nops = 0
    /\ cv_meta = <<>>
    /\ cv_msgs = <<>>
    /\ cv_proc = [p \in Callers |-> NoConvCall]
    /\ cv_ops = 0
    /\ IdleStoreAux /\ IdleCommute /\ IdleFollow /\ IdleUpd /\ IdlePipe /\ IdleCompute
    /\ IdleWorkflow /\ IdleClassify /\ IdlePath /\ IdleHelp /\ IdleRace

\* start_conversation up to the end of its first block: a fresh id, and
\* conversations.insert(conversation_id, metadata) under the write lock
StartConversationMetadata(p) ==
    /\ cv_proc[p].pc = "idle"
    /\ cv_ops < MaxConvOps
    /\ cv_ops' = cv_ops + 1
    /\ cv_meta' = MapInsert(cv_meta, cv_ops + 1, [message_count |-> 0])
    /\ cv_proc' = [cv_proc EXCEPT ![p] =
                      [ op |-> "start_conversation", pc |-> "messages",
                        id |-> cv_ops + 1, outcome |-> "none" ]]
    /\ UNCHANGED <<cv_msgs, notConv>>

\* start_conversation: messages.insert(conversation_id, Vec::new()), Ok(id)
StartConversationMessages(p) ==
    /\ cv_proc[p].op = "start_conversation"
    /\ cv_proc[p].pc = "messages"
    /\ cv_msgs' = MapInsert(cv_msgs, cv_proc[p].id, <<>>)
    /\ cv_proc' = [cv_proc EXCEPT ![p].pc = "idle", ![p].outcome = "ok"]
    /\ UNCHANGED <<cv_meta, cv_ops, notConv>>

\* add_message up to the end of its first block
AddMessageMetadata(p, conversation_id) ==
    /\ cv_proc[p].pc = "idle"
    /\ cv_ops < MaxConvOps
    /\ cv_ops' = cv_ops + 1
    /\ LET updated == add_message_metadata(cv_meta, conversation_id)
       IN  IF updated # <<>>
           THEN /\ cv_meta' = updated[1]
                /\ cv_proc' = [cv_proc EXCEPT ![p] =
                                  [ op |-> "add_message", pc |-> "messages",
                                    id |-> conversation_id, outcome |-> "none" ]]
           ELSE /\ cv_meta' = cv_meta
                /\ cv_proc' = [cv_proc EXCEPT ![p] =
                                  [ op |-> "add_message", pc |-> "idle",
                                    id |-> conversation_id, outcome |-> "err" ]]
    /\ UNCHANGED <<cv_msgs, notConv>>

\* add_message, "Add message": conversation_messages.push(message) under the
\* write lock of the messages map
AddMessagePush(p) ==
    /\ cv_proc[p].op = "add_message"
    /\ cv_proc[p].pc = "messages"
    /\ IF cv_proc[p].id \in DOMAIN cv_msgs
       THEN /\ cv_msgs' = [cv_msgs EXCEPT ![cv_proc[p].id] = Append(@, <<"message", p>>)]
            /\ cv_proc' = [cv_proc EXCEPT ![p].pc = "idle", ![p].outcome = "ok"]
       ELSE /\ cv_msgs' = cv_msgs
            /\ cv_proc' = [cv_proc EXCEPT ![p].pc = "idle", ![p].outcome = "err"]
    /\ UNCHANGED <<cv_meta, cv_ops, notConv>>

NextConv ==
    \/ \E p \in Callers : StartConversationMetadata(p)
    \/ \E p \in Callers : StartConversationMessages(p)
    \/ \E p \in Callers, conversation_id \in KnownIds \cup {UnknownId} :
          AddMessageMetadata(p, conversation_id)
    \/ \E p \in Callers : AddMessagePush(p)

SpecConv == InitConv /\ [][NextConv]_vars

\* the add_message calls that are between their two blocks
AddsInProgress(id) ==
    { p \in Callers : cv_proc[p].op = "add_message" /\ cv_proc[p].pc = "messages"
                      /\ cv_proc[p].id = id }

\* the start_conversation calls that are between their two blocks
StartsInProgress(id) ==
    { p \in Callers : cv_proc[p].op = "start_conversation" /\ cv_proc[p].pc = "messages"
                      /\ cv_proc[p].id = id }

\* a step in which an add_message call on an id without metadata begins
AddOnUnknownId(p) ==
    /\ cv_proc[p].pc = "idle"
    /\ cv_proc'[p] # cv_proc[p]
    /\ cv_proc'[p].op = "add_message"
    /\ cv_proc'[p].id \notin DOMAIN cv_meta

\* an add_message on an unknown id fails and changes neither map
UnknownIdFails ==
    \A p \in Callers :
        AddOnUnknownId(p) =>
            /\ cv_proc'[p].outcome = "err"
            /\ cv_proc'[p].pc = "idle"
            /\ cv_meta' = cv_meta
            /\ cv_msgs' = cv_msgs

\* the two maps hold the same ids in every state
C36_SameIdsAlways == DOMAIN cv_meta = DOMAIN cv_msgs

\* C36 as stated: in every state the two maps hold the same ids and, when no
\* add_message call is in progress, every message_count is the number of
\* messages stored; an add_message on an unknown id fails and changes nothing.
C36_MapsConsistent ==
    /\ [](/\ C36_SameIdsAlways
          /\ (\A p \in Callers : ~(cv_proc[p].op = "add_message" /\ cv_proc[p].pc = "messages"))
                => \A id \in DOMAIN cv_meta \cap DOMAIN cv_msgs :
                      cv_meta[id].message_count = Len(cv_msgs[id]))
    /\ [][UnknownIdFails]_vars

\* C36 amended: every id of the messages map has metadata, and an id with
\* metadata lacks its message list only while its start_conversation call is
\* between its two insertions; for an id in both maps message_count is the
\* number of messages stored plus the add_message calls on it that are between
\* their two blocks; an add_message on an unknown id fails and changes nothing.
C36_MapsConsistentBetweenCalls ==
    /\ [](/\ DOMAIN cv_msgs \subseteq DOMAIN cv_meta
          /\ \A id \in DOMAIN cv_meta :
                (id \notin DOMAIN cv_msgs) <=> (StartsInProgress(id) # {})
          /\ \A id \in DOMAIN cv_msgs :
                cv_meta[id].message_count =
                    Len(cv_msgs[id]) + Cardinality(AddsInProgress(id)))
    /\ [][UnknownIdFails]_vars

\* two add_message calls on one conversation have finished, after one on an
\* unknown id failed
C36_Witness ==
    /\ \A p \in Callers : cv_proc[p].pc = "idle"
    /\ \E id \in DOMAIN cv_msgs : Len(cv_msgs[id]) = 1 /\ cv_meta[id].message_count = 1
    /\ \E p \in Callers : cv_proc[p].op = "add_message" /\ cv_proc[p].outcome = "err"


(***************************************************************************)
(* Further claims on MatchingInfo::compute (SpecCompute).                  *)
(***************************************************************************)
\* the names of the entries of fields, in the order of the endpoint's parameter
\* list (first definition of each name)
InDefinitionOrder(fields, endpoint_params) ==
    \A i, j \in 1..Len(fields) :
        i < j => FindByName(endpoint_params, fields[i].name)
                    < FindByName(endpoint_params, fields[j].name)

\* C37: two evaluations of compute and generate_user_prompt on the same matches
\* and the same endpoint parameter list give the same missing lists, in the
\* order of the endpoint's parameter list, and the same user prompt.
C37_ComputeIsDeterministic ==
    cm_pc = "repeated" =>
        /\ cm_info2[1].missing_required_fields = cm_info[1].missing_required_fields
        /\ cm_info2[1].missing_optional_fields = cm_info[1].missing_optional_fields
        /\ InDefinitionOrder(cm_info[1].missing_required_fields, cm_endpoint_params)
        /\ InDefinitionOrder(cm_info[1].missing_optional_fields, cm_endpoint_params)
        /\ generate_user_prompt(cm_info2[1], "Send Email")
              = generate_user_prompt(cm_info[1], "Send Email")

====
